---------------------------- MODULE Spec2Model ----------------------------
(***************************************************************************)
(* A model of two tools of the repository:                                 *)
(*                                                                         *)
(*   - src/bootctl-uki.c: the PE/COFF section locator (pe_sections), the   *)
(*     section finder and extractor (find_pe_section, read_pe_section),    *)
(*     the kernel classifier (is_uki, inspect_kernel) and the metadata     *)
(*     resolver (inspect_uki, uki_read_pretty_name).  Specification        *)
(*     SpecBootctl.                                                        *)
(*   - src/measure.c: option parsing (parse_argv), the PCR bank set and    *)
(*     the PCR extension engine (verb_calculate, measure_pcr,              *)
(*     pcr_state_extend).  Specification SpecMeasure.                      *)
(*                                                                         *)
(* Both tools are single-threaded programs; an action is one call or one   *)
(* loop iteration of the code, and pc is the position of the program.      *)
(***************************************************************************)
EXTENDS Integers, Sequences, FiniteSets, TLC

VARIABLES
    tool,        \* which program runs: "bootctl" or "measure"
    pc,          \* position of the program
    \* ---- bootctl-uki.c ----
    uki,         \* the FILE *uki: [file, pos]
    io,          \* every fread/fseek done on uki, in order
    want,        \* which of ret_cmdline, ret_uname, ret_pretty_name are non-NULL
    sections,    \* inspect_kernel: struct PeSectionHeader *sections
    scount,      \* inspect_kernel: size_t scount
    ktype,       \* inspect_kernel: KernelType t
    ret,         \* the value returned by the function that ended last
    meta,        \* inspect_uki: cmdline, uname, pname
    rd,          \* the last read_pe_section call: arguments and results
    out,         \* what inspect_kernel wrote through ret_type, ret_cmdline, ...
    finds,       \* the find_pe_section calls of the last step: needle and result
    \* ---- measure.c ----
    argn,         \* parse_argv: the options getopt_long has returned so far
    arg_sections, \* char *arg_sections[_UNIFIED_SECTION_MAX]
    arg_banks,    \* char **arg_banks
    arg_current,  \* bool arg_current
    later_first,  \* history: a section option came after one of a later slot
    pcr_states,   \* verb_calculate: PcrState *pcr_states (n is its length)
    sect,         \* measure_pcr: the section loop's UnifiedSection c
    bank_i,       \* measure_pcr: the bank loops' index i
    fd,           \* measure_pcr: the open section file and its read offset
    m_read,       \* measure_pcr: uint64_t m, the bytes read from fd
    mdctx,        \* measure_pcr: EVP_MD_CTX **mdctx, one context per bank
    extlog,       \* history: every pcr_state_extend call: bank index, slot, kind
    stdout,       \* the lines printed
    errline,      \* the source line of the return that failed (0: none)
    fault,        \* an assertion that failed or memory that was overrun
    verb,         \* run: the verb dispatched, "calculate" or "status"
    platform,     \* the TPM support, the firmware variables and the files
                  \* under /sys/class/tpm/tpm0 the program has met
    status        \* validate_stub and verb_status: locals and messages

bvars == <<uki, io, want, sections, scount, ktype, meta, rd, out, finds>>
svars == <<verb, platform, status>>
mvars == <<argn, arg_sections, arg_banks, arg_current, later_first, pcr_states,
          sect, bank_i, fd, m_read, mdctx, extlog, stdout, errline, fault, svars>>
vars == <<tool, pc, ret, bvars, mvars>>

Min(a, b) == IF a < b THEN a ELSE b
Max(a, b) == IF a > b THEN a ELSE b

(***************************************************************************)
(* Bounds of the model.                                                    *)
(***************************************************************************)
\* Longest section table whose names are enumerated freely.
MaxTable == 3
\* Most sections that follow .osrel, .linux, .initrd in the files whose
\* section sizes vary.
MaxExtra == 2
\* Most options on the command line of the measure tool.
MaxArgs == 3

(***************************************************************************)
(* Constants of src/bootctl-uki.c.                                         *)
(***************************************************************************)
MAX_SECTIONS == 96
SECTION_SIZE_MAX == 16 * 1024

dos_file_magic == <<77, 90>>                      \* "MZ"
pe_file_magic == <<80, 69, 0, 0>>                 \* "PE\0\0"

name_osrel == <<46, 111, 115, 114, 101, 108, 0, 0>>        \* ".osrel"
name_linux == <<46, 108, 105, 110, 117, 120, 0, 0>>        \* ".linux"
name_initrd == <<46, 105, 110, 105, 116, 114, 100, 0>>     \* ".initrd"
name_cmdline == <<46, 99, 109, 100, 108, 105, 110, 101>>   \* ".cmdline"
name_uname == <<46, 117, 110, 97, 109, 101, 0, 0>>         \* ".uname"

KERNEL_TYPE_UNKNOWN == "unknown"
KERNEL_TYPE_UKI == "uki"
KERNEL_TYPE_PE == "pe"

\* sizeof(struct DosFileHeader), sizeof(struct PeHeader),
\* sizeof(struct PeSectionHeader), sizeof(dos.Magic) of pe-header.h
SizeofDos == 64
SizeofPe == 24
SizeofSection == 40
SizeofDosMagic == 2

\* errno values, as the negative return values of the functions
EIO == 0 - 5
E2BIG == 0 - 7
ENOMEM == 0 - 12
EINVAL == 0 - 22
ENOENT == 0 - 2
EACCES == 0 - 13
EOPNOTSUPP == 0 - 95

(***************************************************************************)
(* A void * result of read_pe_section: NULL, or a malloc'ed buffer of      *)
(* alloc bytes.  The buffer holds the filled bytes of the file that start  *)
(* at offset from, and its last byte (index alloc - 1) is last.            *)
(***************************************************************************)
NULL == [null |-> TRUE, alloc |-> 0, from |-> 0, filled |-> 0, last |-> 0]
Buffer(alloc, from, filled, last) ==
    [null |-> FALSE, alloc |-> alloc, from |-> from, filled |-> filled, last |-> last]

(***************************************************************************)
(* The file behind FILE *uki.  The model keeps the fields pe_sections and  *)
(* read_pe_section decode, already converted from little endian, the       *)
(* section table found at the section-table offset, and the file's length  *)
(* in bytes, which decides how much every fread gets.  The byte at offset  *)
(* off of the data area is DataByte(off): never zero, so that the safety   *)
(* NUL of read_pe_section can be told from file content.                   *)
(***************************************************************************)
DataByte(off) == (off % 7) + 1

\* size_t fread(ptr, size, nmemb, stream): the number of complete items read
fread_items(f, size, nmemb) ==
    IF size = 0 \/ nmemb = 0 THEN 0
    ELSE Min(nmemb, Max(0, f.file.len - f.pos) \div size)

\* the position of the stream after that fread
fread_pos(f, size, nmemb) ==
    f.pos + Min(size * nmemb, Max(0, f.file.len - f.pos))

LogRead(log, f, size, nmemb) ==
    Append(log, [op |-> "fread", at |-> f.pos, n |-> size * nmemb])

LogSeek(log, off) ==
    Append(log, [op |-> "fseek", at |-> off, n |-> 0])

\* the result of pe_sections: return value, *ret, *ret_n, and the stream
PeResult(r, s, n, pos, log) ==
    [r |-> r, sections |-> s, scount |-> n, pos |-> pos, io |-> log]

NoSections == [null |-> TRUE, hdrs |-> <<>>]
SectionArray(h) == [null |-> FALSE, hdrs |-> h]

(***************************************************************************)
(* static int pe_sections(FILE *uki, struct PeSectionHeader **ret,         *)
(*                        size_t *ret_n)                                   *)
(* On an error *ret and *ret_n are not written: the caller's sections is   *)
(* still NULL and scount is not set (0 here).                              *)
(***************************************************************************)
\* mutant: the cap compared with >= instead of >
pe_sections_table_ge(f, log) ==
    LET soff == f.file.ExeHeader + SizeofPe + f.file.SizeOfOptionalHeader
        f2 == [f EXCEPT !.pos = soff]
        log2 == LogSeek(log, soff)
        cnt == f.file.NumberOfSections
        items == fread_items(f2, SizeofSection, cnt)
        pos3 == fread_pos(f2, SizeofSection, cnt)
        log3 == LogRead(log2, f2, SizeofSection, cnt)
    IN  IF cnt >= MAX_SECTIONS
            THEN PeResult(0, NoSections, 0, soff, log2)
        ELSE IF items # cnt
            THEN PeResult(EIO, NoSections, 0, pos3, log3)
        ELSE PeResult(0, SectionArray(SubSeq(f.file.table, 1, cnt)), cnt, pos3, log3)

pe_sections_table(f, log) ==
    \* lines 70-86: f is positioned behind the PE header
    LET soff == f.file.ExeHeader + SizeofPe + f.file.SizeOfOptionalHeader
        f2 == [f EXCEPT !.pos = soff]
        log2 == LogSeek(log, soff)
        cnt == f.file.NumberOfSections
        items == fread_items(f2, SizeofSection, cnt)
        pos3 == fread_pos(f2, SizeofSection, cnt)
        log3 == LogRead(log2, f2, SizeofSection, cnt)
    IN  IF cnt > MAX_SECTIONS
            THEN PeResult(0, NoSections, 0, soff, log2)
        ELSE IF items # cnt
            THEN PeResult(EIO, NoSections, 0, pos3, log3)
        ELSE PeResult(0, SectionArray(SubSeq(f.file.table, 1, cnt)), cnt, pos3, log3)

\* mutant: the PE magic is not compared
pe_sections_pe_nomagic(f, log) ==
    LET f1 == [f EXCEPT !.pos = f.file.ExeHeader]
        log1 == LogSeek(log, f.file.ExeHeader)
        items == fread_items(f1, 1, SizeofPe)
        f2 == [f1 EXCEPT !.pos = fread_pos(f1, 1, SizeofPe)]
        log2 == LogRead(log1, f1, 1, SizeofPe)
    IN  IF items # SizeofPe
            THEN PeResult(EIO, NoSections, 0, f2.pos, log2)
        ELSE pe_sections_table(f2, log2)

pe_sections_pe(f, log) ==
    \* lines 61-68: f is positioned behind the DOS header
    LET f1 == [f EXCEPT !.pos = f.file.ExeHeader]
        log1 == LogSeek(log, f.file.ExeHeader)
        items == fread_items(f1, 1, SizeofPe)
        f2 == [f1 EXCEPT !.pos = fread_pos(f1, 1, SizeofPe)]
        log2 == LogRead(log1, f1, 1, SizeofPe)
    IN  IF items # SizeofPe
            THEN PeResult(EIO, NoSections, 0, f2.pos, log2)
        ELSE IF f.file.peMagic # pe_file_magic
            THEN PeResult(0, NoSections, 0, f2.pos, log2)
        ELSE pe_sections_table(f2, log2)

\* mutant: a wrong DOS magic is an error
pe_sections_dos_error(f, log) ==
    LET items == fread_items(f, 1, SizeofDos)
        f1 == [f EXCEPT !.pos = fread_pos(f, 1, SizeofDos)]
        log1 == LogRead(log, f, 1, SizeofDos)
    IN  IF items < SizeofDosMagic \/ f.file.dosMagic # dos_file_magic \/ items # SizeofDos
            THEN PeResult(EIO, NoSections, 0, f1.pos, log1)
        ELSE pe_sections_pe(f1, log1)

\* mutant: the length of the DOS header is checked before its magic
pe_sections_header_first(f, log) ==
    LET items == fread_items(f, 1, SizeofDos)
        f1 == [f EXCEPT !.pos = fread_pos(f, 1, SizeofDos)]
        log1 == LogRead(log, f, 1, SizeofDos)
    IN  IF items # SizeofDos
            THEN PeResult(EIO, NoSections, 0, f1.pos, log1)
        ELSE IF f.file.dosMagic # dos_file_magic
            THEN PeResult(0, NoSections, 0, f1.pos, log1)
        ELSE pe_sections_pe(f1, log1)

pe_sections(f, log) ==
    \* lines 50-59
    LET items == fread_items(f, 1, SizeofDos)
        f1 == [f EXCEPT !.pos = fread_pos(f, 1, SizeofDos)]
        log1 == LogRead(log, f, 1, SizeofDos)
    IN  IF items < SizeofDosMagic
            THEN PeResult(EIO, NoSections, 0, f1.pos, log1)
        ELSE IF f.file.dosMagic # dos_file_magic
            THEN PeResult(0, NoSections, 0, f1.pos, log1)
        ELSE IF items # SizeofDos
            THEN PeResult(EIO, NoSections, 0, f1.pos, log1)
        ELSE pe_sections_pe(f1, log1)

(***************************************************************************)
(* int memcmp_nn(s1, n1, s2, n2): memcmp over the shorter length, then     *)
(* the comparison of the lengths.                                          *)
(***************************************************************************)
RECURSIVE memcmp(_, _, _)
memcmp(s1, s2, n) ==
    IF n = 0 THEN 0
    ELSE IF s1[1] < s2[1] THEN -1
    ELSE IF s1[1] > s2[1] THEN 1
    ELSE memcmp(Tail(s1), Tail(s2), n - 1)

memcmp_nn(s1, n1, s2, n2) ==
    LET c == memcmp(s1, s2, Min(n1, n2))
    IN  IF c # 0 THEN c
        ELSE IF n1 < n2 THEN -1 ELSE IF n1 > n2 THEN 1 ELSE 0

(***************************************************************************)
(* static bool find_pe_section(sections, scount, name, namelen, ret):      *)
(* the loop from index s on; [found, idx], idx being *ret (0-based).       *)
(***************************************************************************)
RECURSIVE find_pe_section_from(_, _, _, _, _)
find_pe_section_from(hdrs, cnt, name, namelen, s) ==
    IF s >= cnt THEN [found |-> FALSE, idx |-> 0]
    ELSE IF memcmp_nn(hdrs[s + 1].Name, Len(hdrs[s + 1].Name), name, namelen) = 0
        THEN [found |-> TRUE, idx |-> s]
    ELSE find_pe_section_from(hdrs, cnt, name, namelen, s + 1)

\* mutant: only the needle's characters before its first NUL are compared
RECURSIVE strnlen(_, _)
strnlen(str, n) ==
    IF n = 0 \/ str[1] = 0 THEN 0 ELSE 1 + strnlen(Tail(str), n - 1)

RECURSIVE find_pe_section_prefix_from(_, _, _, _, _)
find_pe_section_prefix_from(hdrs, cnt, name, namelen, s) ==
    IF s >= cnt THEN [found |-> FALSE, idx |-> 0]
    ELSE IF memcmp(hdrs[s + 1].Name, name, strnlen(name, namelen)) = 0
        THEN [found |-> TRUE, idx |-> s]
    ELSE find_pe_section_prefix_from(hdrs, cnt, name, namelen, s + 1)

find_pe_section_prefix(hdrs, cnt, name, namelen) ==
    find_pe_section_prefix_from(hdrs, cnt, name, namelen, 0)

find_pe_section(hdrs, cnt, name, namelen) ==
    find_pe_section_from(hdrs, cnt, name, namelen, 0)

\* one find_pe_section call: the needle and what the call returned
FindCall(hdrs, cnt, name) ==
    LET fnd == find_pe_section(hdrs, cnt, name, Len(name))
    IN  [name |-> name, found |-> fnd.found, idx |-> fnd.idx]

\* mutant: .initrd is not looked for
is_uki_two_names(hdrs, cnt) ==
    /\ FindCall(hdrs, cnt, name_osrel).found
    /\ FindCall(hdrs, cnt, name_linux).found

\* static bool is_uki(struct PeSectionHeader *sections, size_t scount):
\* the calls it makes, && stopping at the first that finds nothing
is_uki_calls(hdrs, cnt) ==
    LET c1 == FindCall(hdrs, cnt, name_osrel)
        c2 == FindCall(hdrs, cnt, name_linux)
        c3 == FindCall(hdrs, cnt, name_initrd)
    IN  IF ~c1.found THEN <<c1>>
        ELSE IF ~c2.found THEN <<c1, c2>>
        ELSE <<c1, c2, c3>>

is_uki(hdrs, cnt) ==
    LET calls == is_uki_calls(hdrs, cnt)
    IN  Len(calls) = 3 /\ calls[3].found

(***************************************************************************)
(* static int read_pe_section(uki, sections, scount, name, name_len,       *)
(*                            ret, ret_n)                                  *)
(* The result: the return value, *ret, *ret_n and the stream.  On an       *)
(* error *ret and *ret_n are not written: they keep the caller's NULL, 0.  *)
(***************************************************************************)
ReadResult(r, p, n, pos, log) ==
    [r |-> r, ret |-> p, ret_n |-> n, pos |-> pos, io |-> log]

\* the find_pe_section call read_pe_section makes (line 142)
read_pe_section_find(hdrs, cnt, name) == <<FindCall(hdrs, cnt, name)>>

\* data = malloc(size + 1); data[size] = 0; fread(data, 1, size, uki)
SectionData(soff, size) == Buffer(size + 1, soff, size, 0)

\* the byte at index i of a buffer (i < alloc; defined for the bytes written)
BufferByte(b, i) == IF i < b.filled THEN DataByte(b.from + i) ELSE b.last

\* mutant: the size limit compared with >= instead of >
read_pe_section_ge(f, log, hdrs, cnt, name, name_len) ==
    LET fnd == find_pe_section(hdrs, cnt, name, name_len)
        section == hdrs[fnd.idx + 1]
        soff == section.PointerToRawData
        size == section.VirtualSize
        f1 == [f EXCEPT !.pos = soff]
        log1 == LogSeek(log, soff)
        bytes == fread_items(f1, 1, size)
        pos2 == fread_pos(f1, 1, size)
        log2 == LogRead(log1, f1, 1, size)
    IN  IF ~fnd.found
            THEN ReadResult(0, NULL, 0, f.pos, log)
        ELSE IF size >= SECTION_SIZE_MAX
            THEN ReadResult(E2BIG, NULL, 0, f.pos, log)
        ELSE IF bytes # size
            THEN ReadResult(EIO, NULL, 0, pos2, log2)
        ELSE ReadResult(1, SectionData(soff, size), size, pos2, log2)

\* mutant: a section of size 0 is reported like an absent one
read_pe_section_empty_absent(f, log, hdrs, cnt, name, name_len) ==
    LET fnd == find_pe_section(hdrs, cnt, name, name_len)
        section == hdrs[fnd.idx + 1]
        soff == section.PointerToRawData
        size == section.VirtualSize
        f1 == [f EXCEPT !.pos = soff]
        log1 == LogSeek(log, soff)
        bytes == fread_items(f1, 1, size)
        pos2 == fread_pos(f1, 1, size)
        log2 == LogRead(log1, f1, 1, size)
    IN  IF ~fnd.found \/ size = 0
            THEN ReadResult(0, NULL, 0, f.pos, log)
        ELSE IF size > SECTION_SIZE_MAX
            THEN ReadResult(E2BIG, NULL, 0, f.pos, log)
        ELSE IF bytes # size
            THEN ReadResult(EIO, NULL, 0, pos2, log2)
        ELSE ReadResult(1, SectionData(soff, size), size, pos2, log2)

read_pe_section(f, log, hdrs, cnt, name, name_len) ==
    LET fnd == find_pe_section(hdrs, cnt, name, name_len)
        section == hdrs[fnd.idx + 1]
        soff == section.PointerToRawData
        size == section.VirtualSize
        f1 == [f EXCEPT !.pos = soff]
        log1 == LogSeek(log, soff)
        bytes == fread_items(f1, 1, size)
        pos2 == fread_pos(f1, 1, size)
        log2 == LogRead(log1, f1, 1, size)
    IN  IF ~fnd.found
            THEN ReadResult(0, NULL, 0, f.pos, log)
        ELSE IF size > SECTION_SIZE_MAX
            THEN ReadResult(E2BIG, NULL, 0, f.pos, log)
        ELSE IF bytes # size
            THEN ReadResult(EIO, NULL, 0, pos2, log2)
        ELSE ReadResult(1, SectionData(soff, size), size, pos2, log2)



(***************************************************************************)
(* The files the model inspects.                                           *)
(***************************************************************************)
name_text == <<46, 116, 101, 120, 116, 0, 0, 0>>           \* ".text"
name_osrelx == <<46, 111, 115, 114, 101, 108, 120, 0>>     \* ".osrelx"
name_osre == <<46, 111, 115, 114, 101, 0, 0, 0>>           \* ".osre"

SectionNames ==
    {name_osrel, name_linux, name_initrd, name_cmdline, name_uname,
     name_osrelx, name_osre}

RECURSIVE SeqsUpTo(_, _)
SeqsUpTo(S, n) ==
    IF n = 0 THEN {<<>>}
    ELSE LET shorter == SeqsUpTo(S, n - 1)
         IN  shorter \cup {Append(q, x) : q \in {t \in shorter : Len(t) = n - 1}, x \in S}

\* A PE file: DOS header, PE header at ExeHeader, the section table behind
\* the optional header, then the data area.  Section i has its data at
\* 3 * (i - 1) bytes into the data area (sections may overlap); the sections
\* at odd places of the table have the virtual size vsz, the others 2.  A
\* table is laid out only for a count pe_sections reads.
TableLen(n) == IF n <= MAX_SECTIONS THEN n ELSE 0
TableOff(eh, opt) == eh + SizeofPe + opt
DataOff(eh, opt, n) == TableOff(eh, opt) + SizeofSection * TableLen(n)
SectionSize(i, vsz) == IF i % 2 = 1 THEN vsz ELSE 2
SectionEnd(i, vsz) == 3 * (i - 1) + SectionSize(i, vsz)
DataLen(n, vsz) ==
    IF TableLen(n) = 0 THEN 0
    ELSE IF TableLen(n) = 1 THEN SectionEnd(1, vsz)
    ELSE Max(SectionEnd(TableLen(n), vsz), SectionEnd(TableLen(n) - 1, vsz))
FullLen(eh, opt, n, vsz) == DataOff(eh, opt, n) + DataLen(n, vsz)

MkFile(dm, pm, eh, opt, n, names, vsz, len) ==
    [len |-> len,
     dosMagic |-> dm,
     ExeHeader |-> eh,
     peMagic |-> pm,
     NumberOfSections |-> n,
     SizeOfOptionalHeader |-> opt,
     table |-> [i \in 1..TableLen(n) |->
                  [Name |-> IF i <= Len(names) THEN names[i] ELSE name_text,
                   VirtualSize |-> SectionSize(i, vsz),
                   PointerToRawData |-> DataOff(eh, opt, n) + 3 * (i - 1)]]]

DosMagics == {dos_file_magic, <<90, 77>>}
PeMagics == {pe_file_magic, <<80, 69, 0, 1>>}
VSizes == {0, 2, SECTION_SIZE_MAX, SECTION_SIZE_MAX + 1}
Counts == {0, 4, MAX_SECTIONS - 1, MAX_SECTIONS, MAX_SECTIONS + 1, 65535}
Layouts == {<<SizeofDos, 0>>, <<SizeofDos + 16, 16>>}

\* files that differ in their headers and in where they are cut off
HeaderFiles ==
    LET names == <<name_osrel, name_linux, name_initrd, name_cmdline>>
    IN  { MkFile(dm, pm, l[1], l[2], n, names, 2, len) :
            dm \in DosMagics, pm \in PeMagics, l \in Layouts, n \in Counts,
            len \in UNION { {0, 1, SizeofDosMagic, SizeofDos - 1, SizeofDos,
                             e[1] + SizeofPe - 1, e[1] + SizeofPe,
                             DataOff(e[1], e[2], 4) - 1,
                             FullLen(e[1], e[2], 4, 2),
                             FullLen(e[1], e[2], MAX_SECTIONS, 2) - 3,
                             FullLen(e[1], e[2], MAX_SECTIONS, 2)} : e \in Layouts } }

WholeFile(names, vsz, short) ==
    MkFile(dos_file_magic, pe_file_magic, SizeofDos, 0, Len(names), names, vsz,
           FullLen(SizeofDos, 0, Len(names), vsz) - short)

\* well-formed files with every section table of up to MaxTable names
NameFiles ==
    { WholeFile(names, 2, 0) : names \in SeqsUpTo(SectionNames, MaxTable) }

\* unified kernel images with up to MaxExtra more sections, with every
\* virtual size, whole or one byte short
SizeFiles ==
    { WholeFile(<<name_osrel, name_linux, name_initrd>> \o extra, vsz, short) :
        extra \in SeqsUpTo({name_cmdline, name_uname}, MaxExtra),
        vsz \in VSizes, short \in {0, 1} }

Files == HeaderFiles \cup NameFiles \cup SizeFiles

\* verb_kernel_identify passes NULL for the three outputs, verb_kernel_inspect
\* passes all three
Wants ==
    {[cmdline |-> FALSE, uname |-> FALSE, pretty |-> FALSE],
     [cmdline |-> TRUE, uname |-> TRUE, pretty |-> TRUE]}

NoRead ==
    [called |-> FALSE, name |-> <<>>, r |-> 0, ret |-> NULL,
     has_ret_n |-> FALSE, ret_n |-> 0, io_before |-> <<>>, pos_before |-> 0]
\* a char *: NULL or a string
NULLSTR == [null |-> TRUE, str |-> ""]
Str(s) == [null |-> FALSE, str |-> s]

\* what fmemopen and parse_env_file did in uki_read_pretty_name, once they
\* were called
NoOsrel == [tried |-> FALSE, fm_ok |-> TRUE, r |-> 0, pname |-> "", name |-> ""]
NoMeta == [cmdline |-> NULL, uname |-> NULL, pname |-> NULLSTR, osrel |-> NoOsrel]
NoOut == [type |-> "unset", cmdline |-> NULL, uname |-> NULL, pname |-> NULLSTR]


(***************************************************************************)
(* static int uki_read_pretty_name(uki, sections, scount, ret).            *)
(* fmemopen and parse_env_file are library calls: fm_ok says whether       *)
(* fmemopen gave a stream, env is what parse_env_file returned and left in *)
(* pname and name.  The result carries the read_pe_section call it made.   *)
(***************************************************************************)
isempty(str) == str = ""

uki_read_pretty_name(f, log, hdrs, cnt, fm_ok, env) ==
    LET rs == read_pe_section(f, log, hdrs, cnt, name_osrel, Len(name_osrel))
        res(r, p) == [r |-> r, ret |-> p, read |-> rs]
    IN  IF rs.r < 0 THEN res(rs.r, NULLSTR)
        ELSE IF rs.r = 0 THEN res(0, NULLSTR)
        ELSE IF ~fm_ok THEN res(ENOMEM, NULLSTR)
        ELSE IF env.r < 0 THEN res(env.r, NULLSTR)
        ELSE IF ~isempty(env.pname) THEN res(0, Str(env.pname))
        ELSE IF ~isempty(env.name) THEN res(0, Str(env.name))
        ELSE res(0, Str("Linux"))

\* what parse_env_file may return for the embedded os-release text
EnvResults ==
    {[r |-> 0, pname |-> "Distro 1 (One)", name |-> "Distro"],
     [r |-> 0, pname |-> "", name |-> "Distro"],
     [r |-> 0, pname |-> "", name |-> ""],
     [r |-> EINVAL, pname |-> "", name |-> ""]}

(***************************************************************************)
(* The actions of bootctl: inspect_kernel, called by verb_kernel_identify  *)
(* (no output wanted but the type) or by verb_kernel_inspect.              *)
(***************************************************************************)
(***************************************************************************)
(* measure.c.  Byte strings are sequences of symbols: a symbol is one byte *)
(* or one digest.  A digest is kept as the algorithm and the message that  *)
(* was hashed, and it stands for EVP_MD_size bytes: two digests are equal  *)
(* exactly when algorithm and message are (no collisions).                 *)
(***************************************************************************)
Byte(b) == [t |-> "byte", md |-> "", v |-> b, pre |-> <<>>]
Bytes(q) == [k \in 1..Len(q) |-> Byte(q[k])]

RECURSIVE ByteLen(_)
ByteLen(msg) ==
    IF msg = <<>> THEN 0
    ELSE (IF Head(msg).t = "byte" THEN 1 ELSE Head(msg).v) + ByteLen(Tail(msg))

\* OpenSSL: the digests EVP_get_digestbyname knows, by the names the model
\* passes; "" is the NULL implementation
EVP_get_digestbyname(name) ==
    CASE name \in {"SHA1", "sha1"} -> "SHA1"
      [] name \in {"SHA256", "sha256"} -> "SHA256"
      [] name \in {"SHA384", "sha384"} -> "SHA384"
      [] name \in {"SHA512", "sha512"} -> "SHA512"
      [] OTHER -> ""

EVP_MD_name(md) == md

EVP_MD_size(md) ==
    CASE md = "SHA1" -> 20
      [] md = "SHA256" -> 32
      [] md = "SHA384" -> 48
      [] md = "SHA512" -> 64

\* EVP_DigestInit_ex / EVP_DigestUpdate / EVP_DigestFinal_ex on a context
\* [md, msg]; EVP_Digest is the three in one call
EVP_DigestInit_ex(md) == [md |-> md, msg |-> <<>>]
EVP_DigestUpdate(mc, data) == [mc EXCEPT !.msg = @ \o data]
EVP_DigestFinal_ex(mc) ==
    <<[t |-> "digest", md |-> mc.md, v |-> EVP_MD_size(mc.md), pre |-> mc.msg]>>
EVP_Digest(data, md) == EVP_DigestFinal_ex(EVP_DigestUpdate(EVP_DigestInit_ex(md), data))

ascii_strlower(str) ==
    CASE str = "SHA1" -> "sha1"
      [] str = "SHA256" -> "sha256"
      [] str = "SHA384" -> "sha384"
      [] str = "SHA512" -> "sha512"
      [] OTHER -> str

\* strcmp on the bank names the model uses: their rank in strcmp's order
StrRank(str) ==
    CASE str = "SHA1" -> 1
      [] str = "SHA256" -> 2
      [] str = "SHA384" -> 3
      [] str = "SHA512" -> 4
strcmp(a, b) == StrRank(a) - StrRank(b)

\* strv_sort: the strings in strcmp's order
RECURSIVE strv_insert(_, _)
strv_insert(l, x) ==
    IF l = <<>> THEN <<x>>
    ELSE IF strcmp(x, Head(l)) < 0 THEN <<x>> \o l
    ELSE <<Head(l)>> \o strv_insert(Tail(l), x)

RECURSIVE strv_sort(_)
strv_sort(l) == IF l = <<>> THEN <<>> ELSE strv_insert(strv_sort(Tail(l)), Head(l))

\* strv_uniq: every later copy of a string is dropped
RECURSIVE strv_remove(_, _)
strv_remove(l, x) ==
    IF l = <<>> THEN <<>>
    ELSE IF Head(l) = x THEN strv_remove(Tail(l), x)
    ELSE <<Head(l)>> \o strv_remove(Tail(l), x)

RECURSIVE strv_uniq(_)
strv_uniq(l) ==
    IF l = <<>> THEN <<>>
    ELSE <<Head(l)>> \o strv_uniq(strv_remove(Tail(l), Head(l)))

\* UnifiedSection, in the order of the enum and of ARG_LINUX ... ARG_DTB
UNIFIED_SECTION_LINUX == 0
UNIFIED_SECTION_MAX == 6
UnifiedSection == 0..(UNIFIED_SECTION_MAX - 1)

\* const char *unified_sections[]: the section names, as characters
unified_sections ==
    [s \in UnifiedSection |->
        CASE s = 0 -> <<46, 108, 105, 110, 117, 120>>           \* ".linux"
          [] s = 1 -> <<46, 111, 115, 114, 101, 108>>           \* ".osrel"
          [] s = 2 -> <<46, 99, 109, 100, 108, 105, 110, 101>>  \* ".cmdline"
          [] s = 3 -> <<46, 105, 110, 105, 116, 114, 100>>      \* ".initrd"
          [] s = 4 -> <<46, 115, 112, 108, 97, 115, 104>>       \* ".splash"
          [] s = 5 -> <<46, 100, 116, 98>>]                     \* ".dtb"

\* the bytes EVP_Digest gets for a section name: strlen + 1 of them
SectionNameBytes(s) == Bytes(Append(unified_sections[s], 0))

BUFFER_SIZE == 16 * 1024
TPM_PCR_INDEX_KERNEL_IMAGE == 11

(***************************************************************************)
(* The files the section options may name, and their contents.             *)
(***************************************************************************)
NOPATH == ""
Paths == {"/empty", "/a", "/b", "/missing"}
FileExists(path) == path # "/missing"
FileContent(path) ==
    CASE path = "/empty" -> <<>>
      [] path = "/a" -> <<1, 2>>
      [] path = "/b" -> <<3>>

\* the values of --bank= the model passes
BankArgs == {"SHA1", "sha256", "SHA256", "bogus"}

(***************************************************************************)
(* static int pcr_state_extend(PcrState *pcr_state, const void *data,      *)
(*                             size_t sz): the new value of the register.  *)
(***************************************************************************)
\* mutant: the new data is hashed before the old value
pcr_state_extend_swapped(pcr_state, data) ==
    [pcr_state EXCEPT !.value =
        EVP_DigestFinal_ex(
            EVP_DigestUpdate(
                EVP_DigestUpdate(EVP_DigestInit_ex(pcr_state.md), data),
                pcr_state.value))]

pcr_state_extend(pcr_state, data) ==
    [pcr_state EXCEPT !.value =
        EVP_DigestFinal_ex(
            EVP_DigestUpdate(
                EVP_DigestUpdate(EVP_DigestInit_ex(pcr_state.md), pcr_state.value),
                data))]

\* the assertion of line 257: the digest has the size of the register
pcr_state_extend_assert(pcr_state) == ByteLen(pcr_state.value) = pcr_state.value_size

(***************************************************************************)
(* parse_argv, lines 176-191: what follows the getopt loop.                *)
(***************************************************************************)
\* mutant: the list is not sorted
parse_argv_banks_unsorted(banks) ==
    strv_uniq(IF banks = <<>> THEN <<"SHA1", "SHA256", "SHA384", "SHA512">>
              ELSE banks)

\* lines 176-184
parse_argv_banks(banks) ==
    strv_uniq(strv_sort(IF banks = <<>> THEN <<"SHA1", "SHA256", "SHA384", "SHA512">>
                        ELSE banks))

\* lines 186-189
parse_argv_current_conflict(secs, current) ==
    current /\ \E us \in UnifiedSection : secs[us] # NOPATH

(***************************************************************************)
(* verb_calculate, lines 389-420: one PcrState per bank, all zero.         *)
(***************************************************************************)
Zeros(sz) == [k \in 1..sz |-> Byte(0)]

PcrStateNew(d) ==
    LET implementation == EVP_get_digestbyname(d)
        sz == EVP_MD_size(implementation)
    IN  [bank |-> ascii_strlower(EVP_MD_name(implementation)),
         md |-> implementation,
         value |-> Zeros(sz),
         value_size |-> sz]

verb_calculate_states(banks) == [k \in 1..Len(banks) |-> PcrStateNew(banks[k])]

(***************************************************************************)
(* measure_pcr, lines 347-374: the two extends of one bank for section c,  *)
(* mc being the bank's context that has hashed the section's file.         *)
(***************************************************************************)
\* mutant: the name of the section is not measured
measure_name_skipped(pcr_state, sec) == pcr_state

measure_name(pcr_state, sec) ==
    pcr_state_extend(pcr_state, EVP_Digest(SectionNameBytes(sec), pcr_state.md))

measure_content(pcr_state, mc) ==
    pcr_state_extend(pcr_state, EVP_DigestFinal_ex(mc))

measure_section(pcr_state, sec, mc) ==
    measure_content(measure_name(pcr_state, sec), mc)

\* mutant: an empty file is measured like any other
skip_never(m) == FALSE

\* line 344: an empty file is skipped
skip_empty(m) == m = 0

(***************************************************************************)
(* verb_calculate and measure_pcr without --current as one function of the *)
(* parsed arguments: the return value, the line of a failing return, and   *)
(* the final register values.  The actions below take the same steps one   *)
(* at a time.                                                              *)
(***************************************************************************)
RECURSIVE measure_pcr_from(_, _, _)
measure_pcr_from(states, secs, cc) ==
    IF cc = UNIFIED_SECTION_MAX THEN [r |-> 0, line |-> 0, states |-> states]
    ELSE IF secs[cc] = NOPATH THEN measure_pcr_from(states, secs, cc + 1)
    ELSE IF ~FileExists(secs[cc]) THEN [r |-> ENOENT, line |-> 310, states |-> states]
    ELSE IF skip_empty(Len(FileContent(secs[cc]))) THEN measure_pcr_from(states, secs, cc + 1)
    ELSE measure_pcr_from(
             [k \in 1..Len(states) |->
                 measure_section(states[k], cc,
                     EVP_DigestUpdate(EVP_DigestInit_ex(states[k].md),
                                      Bytes(FileContent(secs[cc]))))],
             secs, cc + 1)

calculate(secs, banks) ==
    IF secs[UNIFIED_SECTION_LINUX] = NOPATH
        THEN [r |-> EINVAL, line |-> 387, states |-> <<>>]
    ELSE measure_pcr_from(verb_calculate_states(banks), secs, 0)

\* the platform as measure meets it: whether tpm2_support() reports full
\* support, what access() says of the directory pcr-<bank> of each bank,
\* and, in the order they were read, the PCR files read in use-current mode
BankDirs == {"sha1", "sha256", "sha384", "sha512"}
DefaultPlatform ==
    [tpm2_support |-> "full", dirs |-> [b \in BankDirs |-> "exists"], pcr |-> <<>>]

\* validate_stub and verb_status before they run: the loop indices, found,
\* the warnings and header lines written to stderr, what
\* efi_stub_get_features gave, and the calls of compare_reported_pcr_nr made
\* (what the variable gave, and the return value)
NoFeatures == [r |-> 1, three_pcrs |-> FALSE]
NoStatus ==
    [i |-> 0, b |-> 0, found |-> FALSE, warnings |-> <<>>, stderr |-> <<>>,
     features |-> NoFeatures, calls |-> <<>>]

MeasureIdle ==
    /\ status = NoStatus
    /\ argn = 0
    /\ arg_sections = [s \in UnifiedSection |-> NOPATH]
    /\ arg_banks = <<>>
    /\ arg_current = FALSE
    /\ later_first = FALSE
    /\ pcr_states = <<>>
    /\ sect = 0
    /\ bank_i = 0
    /\ fd = [open |-> FALSE, path |-> NOPATH, off |-> 0]
    /\ m_read = 0
    /\ mdctx = <<>>
    /\ extlog = <<>>
    /\ stdout = <<>>
    /\ errline = 0
    /\ fault = "none"

InitBootctl ==
    /\ tool = "bootctl"
    /\ pc = "pe_sections"
    /\ \E f \in Files : uki = [file |-> f, pos |-> 0]
    /\ io = <<>>
    /\ want \in Wants
    /\ sections = NoSections
    /\ scount = 0
    /\ ktype = "unset"
    /\ ret = 0
    /\ meta = NoMeta
    /\ rd = NoRead
    /\ out = NoOut
    /\ finds = <<>>
    /\ verb = "none"
    /\ platform = DefaultPlatform
    /\ MeasureIdle

\* inspect_kernel, lines 285-287
PeSections ==
    /\ tool = "bootctl" /\ pc = "pe_sections"
    /\ LET res == pe_sections(uki, io)
       IN  /\ uki' = [uki EXCEPT !.pos = res.pos]
           /\ io' = res.io
           /\ sections' = res.sections
           /\ scount' = res.scount
           /\ IF res.r < 0
                 THEN ret' = res.r /\ pc' = "exit"
                 ELSE ret' = ret /\ pc' = "classify"
    /\ UNCHANGED <<tool, want, ktype, meta, rd, out, finds, mvars>>

\* inspect_kernel, lines 289-297: the classification
Classify ==
    /\ tool = "bootctl" /\ pc = "classify"
    /\ IF sections.null
          THEN ktype' = KERNEL_TYPE_UNKNOWN /\ pc' = "return"
       ELSE IF is_uki(sections.hdrs, scount)
          THEN ktype' = KERNEL_TYPE_UKI /\ pc' = "inspect_uki"
       ELSE ktype' = KERNEL_TYPE_PE /\ pc' = "return"
    /\ finds' = (IF sections.null THEN <<>> ELSE is_uki_calls(sections.hdrs, scount))
    /\ UNCHANGED <<tool, ret, uki, io, want, sections, scount, meta, rd, out, mvars>>

\* one call of read_pe_section by inspect_uki or uki_read_pretty_name
ReadCall(name, has_ret_n, rs) ==
    [called |-> TRUE, name |-> name, r |-> rs.r, ret |-> rs.ret,
     has_ret_n |-> has_ret_n, ret_n |-> IF has_ret_n THEN rs.ret_n ELSE 0,
     io_before |-> io, pos_before |-> uki.pos]

\* inspect_uki, lines 238-242
InspectUkiCmdline ==
    /\ tool = "bootctl" /\ pc = "inspect_uki"
    /\ IF want.cmdline
          THEN LET rs == read_pe_section(uki, io, sections.hdrs, scount,
                                         name_cmdline, Len(name_cmdline))
               IN  /\ uki' = [uki EXCEPT !.pos = rs.pos]
                   /\ io' = rs.io
                   /\ rd' = ReadCall(name_cmdline, FALSE, rs)
                   /\ finds' = read_pe_section_find(sections.hdrs, scount, name_cmdline)
                   /\ meta' = [meta EXCEPT !.cmdline = rs.ret]
                   /\ IF rs.r < 0
                         THEN ret' = rs.r /\ pc' = "exit"
                         ELSE ret' = ret /\ pc' = "inspect_uki_uname"
          ELSE /\ pc' = "inspect_uki_uname"
               /\ UNCHANGED <<uki, io, rd, meta, ret, finds>>
    /\ UNCHANGED <<tool, want, sections, scount, ktype, out, mvars>>

\* inspect_uki, lines 244-248
InspectUkiUname ==
    /\ tool = "bootctl" /\ pc = "inspect_uki_uname"
    /\ IF want.uname
          THEN LET rs == read_pe_section(uki, io, sections.hdrs, scount,
                                         name_uname, Len(name_uname))
               IN  /\ uki' = [uki EXCEPT !.pos = rs.pos]
                   /\ io' = rs.io
                   /\ rd' = ReadCall(name_uname, FALSE, rs)
                   /\ finds' = read_pe_section_find(sections.hdrs, scount, name_uname)
                   /\ meta' = [meta EXCEPT !.uname = rs.ret]
                   /\ IF rs.r < 0
                         THEN ret' = rs.r /\ pc' = "exit"
                         ELSE ret' = ret /\ pc' = "inspect_uki_pretty"
          ELSE /\ pc' = "inspect_uki_pretty"
               /\ UNCHANGED <<uki, io, rd, meta, ret, finds>>
    /\ UNCHANGED <<tool, want, sections, scount, ktype, out, mvars>>

\* inspect_uki, lines 250-254
InspectUkiPrettyName ==
    /\ tool = "bootctl" /\ pc = "inspect_uki_pretty"
    /\ IF want.pretty
          THEN \E fm_ok \in BOOLEAN, env \in EnvResults :
               LET res == uki_read_pretty_name(uki, io, sections.hdrs, scount, fm_ok, env)
               IN  /\ uki' = [uki EXCEPT !.pos = res.read.pos]
                   /\ io' = res.read.io
                   /\ rd' = ReadCall(name_osrel, TRUE, res.read)
                   /\ finds' = read_pe_section_find(sections.hdrs, scount, name_osrel)
                   /\ meta' = [meta EXCEPT
                                  !.pname = res.ret,
                                  !.osrel = IF res.read.r = 1
                                               THEN [tried |-> TRUE, fm_ok |-> fm_ok,
                                                     r |-> IF fm_ok THEN env.r ELSE 0,
                                                     pname |-> IF fm_ok THEN env.pname ELSE "",
                                                     name |-> IF fm_ok THEN env.name ELSE ""]
                                               ELSE @]
                   /\ IF res.r < 0
                         THEN ret' = res.r /\ pc' = "exit"
                         ELSE ret' = ret /\ pc' = "inspect_uki_return"
          ELSE /\ pc' = "inspect_uki_return"
               /\ UNCHANGED <<uki, io, rd, meta, ret, finds>>
    /\ UNCHANGED <<tool, want, sections, scount, ktype, out, mvars>>

\* inspect_uki, lines 256-263
InspectUkiReturn ==
    /\ tool = "bootctl" /\ pc = "inspect_uki_return"
    /\ out' = [out EXCEPT
                 !.cmdline = IF want.cmdline THEN meta.cmdline ELSE @,
                 !.uname = IF want.uname THEN meta.uname ELSE @,
                 !.pname = IF want.pretty THEN meta.pname ELSE @]
    /\ pc' = "return"
    /\ UNCHANGED <<tool, ret, uki, io, want, sections, scount, ktype, meta, rd, finds, mvars>>

\* inspect_kernel, lines 299-302
InspectKernelReturn ==
    /\ tool = "bootctl" /\ pc = "return"
    /\ out' = [out EXCEPT !.type = ktype]
    /\ ret' = 0
    /\ pc' = "exit"
    /\ UNCHANGED <<tool, uki, io, want, sections, scount, ktype, meta, rd, finds, mvars>>

BootctlNext ==
    \/ PeSections
    \/ Classify
    \/ InspectUkiCmdline
    \/ InspectUkiUname
    \/ InspectUkiPrettyName
    \/ InspectUkiReturn
    \/ InspectKernelReturn

SpecBootctl == InitBootctl /\ [][BootctlNext]_vars


(***************************************************************************)
(* Properties of bootctl (checked under SpecBootctl).                      *)
(***************************************************************************)
\* the parsed section list holds a descriptor whose 8 name bytes are n
HasName(n) == \E i \in 1..scount : sections.hdrs[i].Name = n

\* the lowest index (1-based) of a descriptor named n
FirstNamed(n) ==
    CHOOSE i \in 1..scount :
        /\ sections.hdrs[i].Name = n
        /\ \A j \in 1..(i - 1) : sections.hdrs[j].Name # n

HasTriplet == HasName(name_osrel) /\ HasName(name_linux) /\ HasName(name_initrd)

MagicIntact ==
    /\ uki.file.dosMagic = dos_file_magic
    /\ uki.file.peMagic = pe_file_magic

\* inspect_kernel has returned 0
InspectOk == pc = "exit" /\ ret = 0 /\ out.type # "unset"

\* C2: the classification is UKI exactly when the parsed section list holds
\* .osrel, .linux and .initrd; a file with intact magic and a table the
\* locator accepts that lacks one of the three is classified PE.
C2_UkiIffTriplet ==
    ktype # "unset" =>
        /\ (ktype = KERNEL_TYPE_UKI <=> (~sections.null /\ HasTriplet))
        /\ (MagicIntact /\ uki.file.NumberOfSections <= MAX_SECTIONS /\ ~HasTriplet
                => ktype = KERNEL_TYPE_PE)

\* C2 witness: .osrel and .linux are there, .initrd is not: PE
C2_Witness ==
    /\ ktype = KERNEL_TYPE_PE
    /\ HasName(name_osrel) /\ HasName(name_linux) /\ ~HasName(name_initrd)

\* C3 as claimed: a successful inspect_kernel reports Unknown exactly when
\* the DOS magic or the PE magic is wrong.
C3_UnknownIffBadMagic ==
    InspectOk => (out.type = KERNEL_TYPE_UNKNOWN <=> ~MagicIntact)

\* C3 amended: a successful inspect_kernel reports Unknown exactly when the
\* DOS magic or the PE magic is wrong or the declared NumberOfSections
\* exceeds MAX_SECTIONS.
C3_UnknownIffBadMagicOrOverCap ==
    InspectOk =>
        (out.type = KERNEL_TYPE_UNKNOWN
            <=> (~MagicIntact \/ uki.file.NumberOfSections > MAX_SECTIONS))

\* C3 witness: intact magic, 97 declared sections, reported Unknown
C3_Witness ==
    /\ InspectOk /\ MagicIntact
    /\ uki.file.NumberOfSections = MAX_SECTIONS + 1
    /\ out.type = KERNEL_TYPE_UNKNOWN

\* the state right after pe_sections returned
AfterPeSections == pc = "classify" \/ (pc = "exit" /\ ktype = "unset" /\ ~rd.called)

\* both headers are there whole and carry their magic: pe_sections gets to
\* the section count
HeadersGood ==
    /\ MagicIntact
    /\ uki.file.len >= SizeofDos
    /\ uki.file.len - uki.file.ExeHeader >= SizeofPe

\* C4: the section list never has more than 96 entries; with good headers, a
\* declared count above 96 gives "no sections" with no fread of the table,
\* a count of at most 96 gives exactly the table's first count descriptors
\* in order, or EIO when the file ends before the table does.
C4_SectionCap ==
    /\ scount <= MAX_SECTIONS
    /\ Len(sections.hdrs) <= MAX_SECTIONS
    /\ (AfterPeSections /\ HeadersGood) =>
          LET n == uki.file.NumberOfSections
              soff == uki.file.ExeHeader + SizeofPe + uki.file.SizeOfOptionalHeader
          IN  IF n > MAX_SECTIONS
                  THEN /\ pc = "classify"
                       /\ sections.null /\ scount = 0
                       /\ Len(io) = 4
                       /\ io[4].op = "fseek"
                       /\ \A k \in 1..Len(io) : io[k].op = "fread" => io[k].at < soff
              ELSE IF n = 0 \/ uki.file.len - soff >= SizeofSection * n
                  THEN /\ pc = "classify"
                       /\ ~sections.null /\ scount = n
                       /\ Len(sections.hdrs) = n
                       /\ \A i \in 1..n : sections.hdrs[i] = uki.file.table[i]
              ELSE pc = "exit" /\ ret = EIO

\* C4 witness: a file that declares 97 sections has been parsed
C4_Witness ==
    /\ pc = "classify" /\ HeadersGood
    /\ uki.file.NumberOfSections = MAX_SECTIONS + 1

\* C5: read_pe_section on a present section fails with E2BIG, the stream
\* untouched, exactly when the virtual size exceeds 16384; otherwise it seeks
\* to the file offset and reads virtual-size bytes, fails with EIO on a short
\* read, and else returns 1 with a buffer of virtual-size bytes of the file
\* followed by a zero byte, the reported length being the virtual size.
C5_ReadPresent ==
    (rd.called /\ HasName(rd.name)) =>
        LET sec == sections.hdrs[FirstNamed(rd.name)]
            size == sec.VirtualSize
            soff == sec.PointerToRawData
        IN  IF size > 16384
                THEN rd.r = E2BIG /\ io = rd.io_before /\ uki.pos = rd.pos_before
            ELSE /\ rd.r # E2BIG
                 /\ io = rd.io_before \o
                           <<[op |-> "fseek", at |-> soff, n |-> 0],
                             [op |-> "fread", at |-> soff, n |-> size]>>
                 /\ IF Max(0, uki.file.len - soff) < size
                       THEN rd.r = EIO
                       ELSE /\ rd.r = 1
                            /\ ~rd.ret.null
                            /\ rd.ret.alloc = size + 1
                            /\ rd.ret.from = soff /\ rd.ret.filled = size
                            /\ BufferByte(rd.ret, size) = 0
                            /\ \A i \in 0..(size - 1) :
                                   BufferByte(rd.ret, i) = DataByte(soff + i)
                            /\ rd.has_ret_n => rd.ret_n = size

\* C5 witness: a section of exactly 16384 bytes has been read
C5_Witness == rd.called /\ rd.r = 1 /\ rd.ret.filled = 16384

\* C9: every find_pe_section call with an 8-byte needle finds the lowest
\* index whose name field equals the needle in all 8 bytes, and finds
\* nothing exactly when no name field equals it.
C9_FindExact ==
    \A k \in 1..Len(finds) :
        LET c == finds[k]
        IN  /\ c.found <=> HasName(c.name)
            /\ c.found => c.idx + 1 = FirstNamed(c.name)

\* C9 witness: .osrel was found behind a name that only extends or only
\* shortens it
C9_Witness ==
    \E k \in 1..Len(finds) :
        /\ finds[k].name = name_osrel /\ finds[k].found /\ finds[k].idx = 2
        /\ {sections.hdrs[1].Name, sections.hdrs[2].Name} = {name_osrelx, name_osre}

\* C10: read_pe_section for an absent name returns 0 with a NULL buffer and
\* length 0 and leaves the stream alone; for a present name read with success
\* it returns 1 and a non-NULL buffer, whatever the size.
C10_AbsentIsExplicit ==
    rd.called =>
        /\ ~HasName(rd.name) =>
              /\ rd.r = 0 /\ rd.ret = NULL /\ rd.ret_n = 0
              /\ io = rd.io_before /\ uki.pos = rd.pos_before
        /\ (HasName(rd.name) /\ rd.r >= 0) => (rd.r = 1 /\ ~rd.ret.null)

\* C10 witness: .uname was absent (NULL, no error) and then the present
\* .osrel of size 0 was read: return value 1, a buffer, length 0
C10_Witness ==
    /\ rd.called /\ rd.name = name_osrel
    /\ rd.r = 1 /\ ~rd.ret.null /\ rd.ret_n = 0 /\ rd.ret.filled = 0
    /\ want.uname /\ ~HasName(name_uname) /\ meta.uname = NULL

\* the magic is in the file, and it is the right one
DosMagicOk == uki.file.len >= SizeofDosMagic /\ uki.file.dosMagic = dos_file_magic
PeMagicOk ==
    /\ uki.file.len >= uki.file.ExeHeader + Len(pe_file_magic)
    /\ uki.file.peMagic = pe_file_magic

\* pe_sections returned 0 and the explicit "no sections"
ReturnedNoSections == pc = "classify" /\ sections.null /\ scount = 0

\* C11 as claimed: for every file whose DOS magic or PE magic is missing or
\* wrong, pe_sections returns 0 with "no sections", never an error.
C11_NonPeNoSections ==
    (AfterPeSections /\ (~DosMagicOk \/ ~PeMagicOk)) => ReturnedNoSections

\* C11 amended: pe_sections returns 0 with "no sections" when at least the
\* two magic bytes of the DOS header can be read and are wrong, and when the
\* DOS header is whole with the right magic and the PE header is whole with
\* a wrong magic; when a magic is missing or wrong and neither is the case,
\* a header is cut short and pe_sections fails with EIO.
C11_NonPeNoSectionsWholeHeaders ==
    LET wrongDos == uki.file.len >= SizeofDosMagic /\ uki.file.dosMagic # dos_file_magic
        wrongPe == /\ DosMagicOk /\ uki.file.len >= SizeofDos
                   /\ uki.file.len - uki.file.ExeHeader >= SizeofPe
                   /\ uki.file.peMagic # pe_file_magic
    IN  (AfterPeSections /\ (~DosMagicOk \/ ~PeMagicOk)) =>
           IF wrongDos \/ wrongPe
              THEN ReturnedNoSections
              ELSE /\ pc = "exit" /\ ret = EIO
                   /\ \/ uki.file.len < SizeofDos
                      \/ uki.file.len - uki.file.ExeHeader < SizeofPe

\* C11 witness: a file of just two bytes that are not "MZ": no sections
C11_Witness ==
    /\ ReturnedNoSections
    /\ uki.file.len = SizeofDosMagic
    /\ uki.file.dosMagic # dos_file_magic

\* inspect_kernel reported Unknown with nothing read beyond the PE header
\* and nothing extracted
UnknownWithoutExtraction ==
    /\ ret = 0 /\ out.type = KERNEL_TYPE_UNKNOWN
    /\ sections.null /\ scount = 0
    /\ io = <<[op |-> "fread", at |-> 0, n |-> SizeofDos],
              [op |-> "fseek", at |-> uki.file.ExeHeader, n |-> 0],
              [op |-> "fread", at |-> uki.file.ExeHeader, n |-> SizeofPe]>>
    /\ ~rd.called /\ finds = <<>>
    /\ out.cmdline = NULL /\ out.uname = NULL /\ out.pname = NULLSTR

\* C12 as claimed: every file with the DOS magic "MZ" and a PE magic other
\* than "PE\0\0" is inspected with success: Unknown, no sections, no
\* section header read, no read_pe_section.
C12_BadPeMagicUnknown ==
    (tool = "bootctl" /\ pc = "exit" /\ DosMagicOk
       /\ uki.file.len >= uki.file.ExeHeader + Len(pe_file_magic)
       /\ uki.file.peMagic # pe_file_magic)
    => UnknownWithoutExtraction

\* C12 amended: the same for the files that hold the whole DOS header and
\* the whole PE header.
C12_BadPeMagicUnknownWholeHeaders ==
    (tool = "bootctl" /\ pc = "exit" /\ DosMagicOk
       /\ uki.file.len >= SizeofDos
       /\ uki.file.len >= uki.file.ExeHeader + SizeofPe
       /\ uki.file.peMagic # pe_file_magic)
    => UnknownWithoutExtraction

\* C12 witness: such a file, inspected with all metadata outputs requested
C12_Witness ==
    /\ tool = "bootctl" /\ pc = "exit" /\ DosMagicOk
    /\ uki.file.len >= uki.file.ExeHeader + SizeofPe
    /\ uki.file.peMagic # pe_file_magic
    /\ want.cmdline /\ want.uname /\ want.pretty
    /\ out.type = KERNEL_TYPE_UNKNOWN

\* C20: with n the bytes the first fread gets, pe_sections fails with EIO
\* if n < 2; else returns "no sections" if the two bytes are not "MZ", also
\* when n < 64; else fails with EIO if n < 64.
C20_DosHeaderOrder ==
    AfterPeSections =>
       LET n == Min(uki.file.len, SizeofDos)
       IN  IF n < 2 THEN pc = "exit" /\ ret = EIO /\ Len(io) = 1
           ELSE IF uki.file.dosMagic # dos_file_magic
              THEN ReturnedNoSections /\ Len(io) = 1
           ELSE n < SizeofDos => (pc = "exit" /\ ret = EIO /\ Len(io) = 1)

\* C20 witness: 63 bytes that do not start with "MZ": no sections
C20_Witness ==
    /\ ReturnedNoSections
    /\ uki.file.len = SizeofDos - 1
    /\ uki.file.dosMagic # dos_file_magic

\* uki_read_pretty_name got the .osrel section and then failed to open or
\* to parse it
OsrelFailed == meta.osrel.tried /\ (~meta.osrel.fm_ok \/ meta.osrel.r < 0)

\* C13: when opening or parsing the embedded os-release fails, the
\* inspection still ends with success: UKI, the command line and version
\* that were extracted, and a display name that is absent or "Linux".
C13_OsrelFailureNonFatal ==
    (tool = "bootctl" /\ pc = "exit" /\ OsrelFailed) =>
        /\ ret = 0
        /\ out.type = KERNEL_TYPE_UKI
        /\ out.cmdline = meta.cmdline /\ out.uname = meta.uname
        /\ out.pname \in {NULLSTR, Str("Linux")}

\* uki_read_pretty_name has been called and has returned
PrettyNameReturned ==
    /\ tool = "bootctl" /\ want.pretty /\ rd.called /\ rd.name = name_osrel
    /\ pc \in {"inspect_uki_return", "return", "exit"}

\* C14: the name uki_read_pretty_name resolves is PRETTY_NAME if that is not
\* empty, else NAME if that is not empty, else "Linux"; and it is "Linux"
\* when .osrel is absent or cannot be opened or parsed.
C14_PrettyNameResolution ==
    PrettyNameReturned =>
        IF rd.r = 0 \/ OsrelFailed THEN meta.pname = Str("Linux")
        ELSE meta.osrel.tried =>
                meta.pname = (IF meta.osrel.pname # "" THEN Str(meta.osrel.pname)
                              ELSE IF meta.osrel.name # "" THEN Str(meta.osrel.name)
                              ELSE Str("Linux"))


(***************************************************************************)
(* The platform's PCR files /sys/class/tpm/tpm0/pcr-<bank>/<index>: text   *)
(* in characters, 0 .. 15 a hexadecimal digit of that value, WS white      *)
(* space, BADCHAR any other character.                                     *)
(***************************************************************************)
WS == 16
BADCHAR == 17

RECURSIVE hexmem(_)
hexmem(q) ==
    IF q = <<>> THEN <<>> ELSE <<Head(q) \div 16, Head(q) % 16>> \o hexmem(Tail(q))

\* strstrip: leading and trailing white space dropped
RECURSIVE strstrip_left(_)
strstrip_left(t) == IF t # <<>> /\ Head(t) = WS THEN strstrip_left(Tail(t)) ELSE t
RECURSIVE strstrip_right(_)
strstrip_right(t) ==
    IF t # <<>> /\ t[Len(t)] = WS THEN strstrip_right(SubSeq(t, 1, Len(t) - 1)) ELSE t
strstrip(t) == strstrip_right(strstrip_left(t))

\* unhexmem: [r, bytes]
RECURSIVE unhex_pairs(_)
unhex_pairs(t) ==
    IF t = <<>> THEN <<>> ELSE <<t[1] * 16 + t[2]>> \o unhex_pairs(Tail(Tail(t)))
unhexmem(t) ==
    IF Len(t) % 2 # 0 \/ \E k \in 1..Len(t) : t[k] > 15
        THEN [r |-> EINVAL, bytes |-> <<>>]
        ELSE [r |-> 0, bytes |-> unhex_pairs(t)]

PatternBytes(n) == [k \in 1..n |-> k]

\* what a PCR file of a bank of sz bytes may hold; <<BADCHAR, BADCHAR>> is no
\* hexadecimal text, <<1>> has an odd length
SysfsTexts(sz) ==
    {hexmem(PatternBytes(sz)) \o <<WS>>,
     hexmem([k \in 1..sz |-> 0]) \o <<WS>>,
     hexmem(PatternBytes(sz - 1)) \o <<WS>>,
     hexmem(PatternBytes(sz + 1)) \o <<WS>>,
     <<WS>>,
     <<BADCHAR, BADCHAR>>,
     <<1>>}

(***************************************************************************)
(* The actions of measure: run() calls parse_argv, then the verb.          *)
(***************************************************************************)
BootctlIdle ==
    /\ uki = [file |-> WholeFile(<<>>, 0, 0), pos |-> 0]
    /\ io = <<>>
    /\ want = [cmdline |-> FALSE, uname |-> FALSE, pretty |-> FALSE]
    /\ sections = NoSections
    /\ scount = 0
    /\ ktype = "unset"
    /\ meta = NoMeta
    /\ rd = NoRead
    /\ out = NoOut
    /\ finds = <<>>

InitMeasure ==
    /\ tool = "measure"
    /\ verb = "calculate"
    /\ platform = DefaultPlatform
    /\ pc = "parse_argv"
    /\ ret = 0
    /\ BootctlIdle
    /\ MeasureIdle

\* parse_argv, lines 132-139: --linux= ... --dtb=
ParseSectionOption ==
    /\ tool = "measure" /\ pc = "parse_argv" /\ argn < MaxArgs
    /\ \E section \in UnifiedSection, optarg \in Paths :
          /\ arg_sections' = [arg_sections EXCEPT ![section] = optarg]
          /\ later_first' =
                (later_first \/ \E us \in UnifiedSection :
                                    us > section /\ arg_sections[us] # NOPATH)
    /\ argn' = argn + 1
    /\ UNCHANGED <<svars, tool, pc, ret, bvars, arg_banks, arg_current, pcr_states, sect,
                   bank_i, fd, m_read, mdctx, extlog, stdout, errline, fault>>

\* parse_argv, lines 141-143: -c, --current
ParseCurrentOption ==
    /\ tool = "measure" /\ pc = "parse_argv" /\ argn < MaxArgs
    /\ arg_current' = TRUE
    /\ argn' = argn + 1
    /\ UNCHANGED <<svars, tool, pc, ret, bvars, arg_sections, arg_banks, later_first,
                   pcr_states, sect, bank_i, fd, m_read, mdctx, extlog, stdout,
                   errline, fault>>

\* mutant: the name is taken without asking whether a digest implements it
ParseBankOptionUnchecked ==
    /\ tool = "measure" /\ pc = "parse_argv" /\ argn < MaxArgs
    /\ \E optarg \in BankArgs :
          LET implementation == EVP_get_digestbyname(optarg)
          IN  arg_banks' = Append(arg_banks, IF implementation = "" THEN optarg
                                             ELSE EVP_MD_name(implementation))
    /\ argn' = argn + 1
    /\ UNCHANGED <<svars, tool, ret, errline, pc, bvars, arg_sections, arg_current,
                   later_first, pcr_states, sect, bank_i, fd, m_read, mdctx, extlog,
                   stdout, fault>>

\* parse_argv, lines 145-156: --bank=
ParseBankOption ==
    /\ tool = "measure" /\ pc = "parse_argv" /\ argn < MaxArgs
    /\ \E optarg \in BankArgs :
          LET implementation == EVP_get_digestbyname(optarg)
          IN  IF implementation = ""
                 THEN /\ ret' = EINVAL /\ errline' = 150 /\ pc' = "exit"
                      /\ UNCHANGED arg_banks
                 ELSE /\ arg_banks' = Append(arg_banks, EVP_MD_name(implementation))
                      /\ UNCHANGED <<ret, errline, pc>>
    /\ argn' = argn + 1
    /\ UNCHANGED <<svars, tool, bvars, arg_sections, arg_current, later_first, pcr_states,
                   sect, bank_i, fd, m_read, mdctx, extlog, stdout, fault>>

\* parse_argv, lines 176-191, then run() dispatching the verb calculate
ParseEnd ==
    /\ tool = "measure" /\ pc = "parse_argv"
    /\ arg_banks' = parse_argv_banks(arg_banks)
    /\ IF parse_argv_current_conflict(arg_sections, arg_current)
          THEN ret' = EINVAL /\ errline' = 189 /\ pc' = "exit"
          ELSE /\ ret' = 1 /\ errline' = errline
               /\ pc' = (IF verb = "status" THEN "validate_stub" ELSE "verb_calculate")
    /\ UNCHANGED <<svars, tool, bvars, argn, arg_sections, arg_current, later_first,
                   pcr_states, sect, bank_i, fd, m_read, mdctx, extlog, stdout, fault>>

\* verb_calculate, lines 386-420
VerbCalculate ==
    /\ tool = "measure" /\ pc = "verb_calculate"
    /\ IF arg_sections[UNIFIED_SECTION_LINUX] = NOPATH /\ ~arg_current
          THEN /\ ret' = EINVAL /\ errline' = 387 /\ pc' = "exit"
               /\ UNCHANGED pcr_states
          ELSE /\ pcr_states' = verb_calculate_states(arg_banks)
               /\ pc' = (IF arg_current THEN "measure_current" ELSE "measure_section")
               /\ UNCHANGED <<ret, errline>>
    /\ sect' = 0
    /\ bank_i' = 0
    /\ UNCHANGED <<svars, tool, bvars, argn, arg_sections, arg_banks, arg_current, later_first,
                   fd, m_read, mdctx, extlog, stdout, fault>>

\* the outcome of read_virtual_file on a PCR file of a bank of sz bytes
SysfsReads(sz) ==
    {[r |-> ENOENT, s |-> <<>>]} \cup {[r |-> 0, s |-> t] : t \in SysfsTexts(sz)}

\* memcpy(pcr_states[i].value, v, sz) into the register's value_size bytes:
\* the bytes that fit, and the old bytes behind them
memcpy_value(value, v, value_size) ==
    [k \in 1..value_size |-> IF k <= Len(v) THEN Byte(v[k]) ELSE value[k]]

\* measure_pcr, lines 273-291: one bank of the use-current loop.  The check
\* of the decoded length is an assert: a build with assertions aborts in
\* it, a build without them (ndebug) copies sz bytes whatever the register
\* holds, and a copy past the end of the register is undefined: it is
\* recorded as a fault, and the program crashes or goes on.
MeasureCurrent ==
    /\ tool = "measure" /\ pc = "measure_current" /\ bank_i < Len(pcr_states)
    /\ \E rv \in SysfsReads(pcr_states[bank_i + 1].value_size),
          ndebug \in BOOLEAN, crash \in BOOLEAN :
          /\ LET v == unhexmem(strstrip(rv.s))
                 value_size == pcr_states[bank_i + 1].value_size
                 copied == [pcr_states EXCEPT ![bank_i + 1].value =
                               memcpy_value(@, v.bytes, value_size)]
             IN  IF rv.r < 0
                    THEN /\ ret' = rv.r /\ errline' = 283 /\ pc' = "exit"
                         /\ UNCHANGED <<pcr_states, bank_i, fault>>
                 ELSE IF v.r < 0
                    THEN /\ ret' = v.r /\ errline' = 287 /\ pc' = "exit"
                         /\ UNCHANGED <<pcr_states, bank_i, fault>>
                 ELSE IF value_size # Len(v.bytes) /\ ~ndebug
                    THEN /\ fault' = "assert" /\ errline' = 289 /\ pc' = "abort"
                         /\ UNCHANGED <<pcr_states, bank_i, ret>>
                 ELSE IF Len(v.bytes) > value_size
                    THEN /\ fault' = "overflow" /\ errline' = 290
                         /\ pcr_states' = copied
                         /\ IF crash THEN pc' = "abort" /\ bank_i' = bank_i
                                     ELSE pc' = pc /\ bank_i' = bank_i + 1
                         /\ UNCHANGED ret
                 ELSE /\ pcr_states' = copied
                      /\ bank_i' = bank_i + 1
                      /\ UNCHANGED <<ret, errline, pc, fault>>
          /\ platform' = [platform EXCEPT !.pcr = Append(@, rv)]
    /\ UNCHANGED <<verb, status, tool, bvars, argn, arg_sections, arg_banks, arg_current,
                   later_first, sect, fd, m_read, mdctx, extlog, stdout>>

\* measure_pcr, line 293
MeasureCurrentReturn ==
    /\ tool = "measure" /\ pc = "measure_current" /\ bank_i = Len(pcr_states)
    /\ pc' = "output"
    /\ UNCHANGED <<tool, ret, bvars, mvars>>

\* measure_pcr, lines 300-306: a slot without a file
SectionContinue ==
    /\ tool = "measure" /\ pc = "measure_section" /\ sect < UNIFIED_SECTION_MAX
    /\ arg_sections[sect] = NOPATH
    /\ sect' = sect + 1
    /\ UNCHANGED <<svars, tool, pc, ret, bvars, argn, arg_sections, arg_banks, arg_current,
                   later_first, pcr_states, bank_i, fd, m_read, mdctx, extlog, stdout,
                   errline, fault>>

\* measure_pcr, lines 308-324: open the file, one digest context per bank
SectionOpen ==
    /\ tool = "measure" /\ pc = "measure_section" /\ sect < UNIFIED_SECTION_MAX
    /\ arg_sections[sect] # NOPATH
    /\ IF ~FileExists(arg_sections[sect])
          THEN /\ ret' = ENOENT /\ errline' = 310 /\ pc' = "exit"
               /\ UNCHANGED <<fd, mdctx, m_read>>
          ELSE /\ fd' = [open |-> TRUE, path |-> arg_sections[sect], off |-> 0]
               /\ mdctx' = [k \in 1..Len(pcr_states) |-> EVP_DigestInit_ex(pcr_states[k].md)]
               /\ m_read' = 0
               /\ pc' = "read"
               /\ UNCHANGED <<ret, errline>>
    /\ UNCHANGED <<svars, tool, bvars, argn, arg_sections, arg_banks, arg_current, later_first,
                   pcr_states, sect, bank_i, extlog, stdout, fault>>

\* measure_pcr, lines 329-339: read() returns some sz > 0 bytes, no more than
\* the buffer holds or the file has left
SectionRead ==
    /\ tool = "measure" /\ pc = "read"
    /\ fd.off < Len(FileContent(fd.path))
    /\ \E sz \in 1..Min(BUFFER_SIZE, Len(FileContent(fd.path)) - fd.off) :
          LET buffer == Bytes(SubSeq(FileContent(fd.path), fd.off + 1, fd.off + sz))
          IN  /\ mdctx' = [k \in 1..Len(mdctx) |-> EVP_DigestUpdate(mdctx[k], buffer)]
              /\ m_read' = m_read + sz
              /\ fd' = [fd EXCEPT !.off = @ + sz]
    /\ UNCHANGED <<svars, tool, pc, ret, bvars, argn, arg_sections, arg_banks, arg_current,
                   later_first, pcr_states, sect, bank_i, extlog, stdout, errline, fault>>

\* measure_pcr, lines 332-345: read() returns 0, the file is closed, an empty
\* file is skipped
SectionEof ==
    /\ tool = "measure" /\ pc = "read"
    /\ fd.off = Len(FileContent(fd.path))
    /\ fd' = [open |-> FALSE, path |-> NOPATH, off |-> 0]
    /\ IF skip_empty(m_read)
          THEN /\ sect' = sect + 1 /\ pc' = "measure_section"
          ELSE /\ sect' = sect /\ pc' = "extend_name"
    /\ bank_i' = 0
    /\ UNCHANGED <<svars, tool, ret, bvars, argn, arg_sections, arg_banks, arg_current,
                   later_first, pcr_states, m_read, mdctx, extlog, stdout, errline, fault>>

\* measure_pcr, lines 347-363: the name of the section is measured into bank i
ExtendName ==
    /\ tool = "measure" /\ pc = "extend_name"
    /\ LET next == measure_name(pcr_states[bank_i + 1], sect)
       IN  /\ pcr_states' = [pcr_states EXCEPT ![bank_i + 1] = next]
           /\ IF pcr_state_extend_assert(next)
                 THEN pc' = "extend_content" /\ UNCHANGED <<fault, errline>>
                 ELSE pc' = "abort" /\ fault' = "assert" /\ errline' = 257
    /\ extlog' = Append(extlog, [c |-> sect, bank |-> bank_i, what |-> "name"])
    /\ UNCHANGED <<svars, tool, ret, bvars, argn, arg_sections, arg_banks, arg_current,
                   later_first, sect, bank_i, fd, m_read, mdctx, stdout>>

\* mutant: every bank is extended with the digest of the first bank's context
ExtendContentFirstContext ==
    /\ tool = "measure" /\ pc = "extend_content"
    /\ LET next == measure_content(pcr_states[bank_i + 1], mdctx[1])
       IN  /\ pcr_states' = [pcr_states EXCEPT ![bank_i + 1] = next]
           /\ IF ~pcr_state_extend_assert(next)
                 THEN /\ pc' = "abort" /\ fault' = "assert" /\ errline' = 257
                      /\ UNCHANGED <<bank_i, sect, mdctx>>
              ELSE IF bank_i + 1 < Len(pcr_states)
                 THEN /\ pc' = "extend_name" /\ bank_i' = bank_i + 1
                      /\ UNCHANGED <<fault, errline, sect, mdctx>>
              ELSE /\ pc' = "measure_section" /\ bank_i' = 0 /\ sect' = sect + 1
                   /\ mdctx' = <<>>
                   /\ UNCHANGED <<fault, errline>>
    /\ extlog' = Append(extlog, [c |-> sect, bank |-> bank_i, what |-> "content"])
    /\ UNCHANGED <<svars, tool, ret, bvars, argn, arg_sections, arg_banks, arg_current,
                   later_first, fd, m_read, stdout>>

\* measure_pcr, lines 365-375: then the digest of the file, and on to the
\* next bank or the next section
ExtendContent ==
    /\ tool = "measure" /\ pc = "extend_content"
    /\ LET next == measure_content(pcr_states[bank_i + 1], mdctx[bank_i + 1])
       IN  /\ pcr_states' = [pcr_states EXCEPT ![bank_i + 1] = next]
           /\ IF ~pcr_state_extend_assert(next)
                 THEN /\ pc' = "abort" /\ fault' = "assert" /\ errline' = 257
                      /\ UNCHANGED <<bank_i, sect, mdctx>>
              ELSE IF bank_i + 1 < Len(pcr_states)
                 THEN /\ pc' = "extend_name" /\ bank_i' = bank_i + 1
                      /\ UNCHANGED <<fault, errline, sect, mdctx>>
              ELSE /\ pc' = "measure_section" /\ bank_i' = 0 /\ sect' = sect + 1
                   /\ mdctx' = <<>>
                   /\ UNCHANGED <<fault, errline>>
    /\ extlog' = Append(extlog, [c |-> sect, bank |-> bank_i, what |-> "content"])
    /\ UNCHANGED <<svars, tool, ret, bvars, argn, arg_sections, arg_banks, arg_current,
                   later_first, fd, m_read, stdout>>

\* measure_pcr, line 377
MeasureReturn ==
    /\ tool = "measure" /\ pc = "measure_section" /\ sect = UNIFIED_SECTION_MAX
    /\ pc' = "output"
    /\ UNCHANGED <<tool, ret, bvars, mvars>>

\* verb_calculate, lines 426-464 without --json: one line per bank, the
\* register in hexadecimal
hexmem_value(value) == [hex_of |-> value]

VerbCalculateOutput ==
    /\ tool = "measure" /\ pc = "output"
    /\ stdout' = [k \in 1..Len(pcr_states) |->
                     [pcr |-> TPM_PCR_INDEX_KERNEL_IMAGE,
                      bank |-> pcr_states[k].bank,
                      hd |-> hexmem_value(pcr_states[k].value)]]
    /\ ret' = 0
    /\ pc' = "exit"
    /\ UNCHANGED <<svars, tool, bvars, argn, arg_sections, arg_banks, arg_current, later_first,
                   pcr_states, sect, bank_i, fd, m_read, mdctx, extlog, errline, fault>>

MeasureNext ==
    \/ ParseSectionOption
    \/ ParseCurrentOption
    \/ ParseBankOption
    \/ ParseEnd
    \/ VerbCalculate
    \/ MeasureCurrent
    \/ MeasureCurrentReturn
    \/ SectionContinue
    \/ SectionOpen
    \/ SectionRead
    \/ SectionEof
    \/ ExtendName
    \/ ExtendContent
    \/ MeasureReturn
    \/ VerbCalculateOutput

SpecMeasure == InitMeasure /\ [][MeasureNext]_vars

(***************************************************************************)
(* measure status: validate_stub, then the PCR files of every bank.  The   *)
(* status runs of the model take bank options only.                        *)
(***************************************************************************)
TPM_PCR_INDEX_KERNEL_PARAMETERS == 12
TPM_PCR_INDEX_INITRD_SYSEXTS == 13

\* verb_status: relevant_pcrs[].nr, and the calls of lines 505-513
relevant_pcrs ==
    <<TPM_PCR_INDEX_KERNEL_IMAGE, TPM_PCR_INDEX_KERNEL_PARAMETERS,
      TPM_PCR_INDEX_INITRD_SYSEXTS>>

\* a decimal text, as digits, and safe_atou32 of a text: [r, v]
RECURSIVE DecimalValue(_, _)
DecimalValue(t, acc) ==
    IF t = <<>> THEN acc ELSE DecimalValue(Tail(t), acc * 10 + Head(t))
DecimalText(n) == IF n < 10 THEN <<n>> ELSE <<n \div 10, n % 10>>
safe_atou32(t) ==
    IF t = <<>> \/ \E k \in 1..Len(t) : t[k] > 9
        THEN [r |-> EINVAL, v |-> 0]
        ELSE [r |-> 0, v |-> DecimalValue(t, 0)]

\* what efi_get_variable_string may give for the variable of category pcr:
\* no such variable, a read error, the expected number, another number, or
\* text that is no number
EfiVariables(pcr) ==
    {[r |-> ENOENT, s |-> <<>>], [r |-> EIO, s |-> <<>>],
     [r |-> 0, s |-> DecimalText(pcr)], [r |-> 0, s |-> DecimalText(pcr + 1)],
     [r |-> 0, s |-> <<BADCHAR>>]}

\* what efi_stub_get_features may give
StubFeatures ==
    {[r |-> EIO, three_pcrs |-> FALSE], [r |-> 0, three_pcrs |-> FALSE],
     [r |-> 0, three_pcrs |-> TRUE]}

\* mutant: a number other than the expected one is an error
compare_reported_pcr_nr_fatal(pcr, var) ==
    LET n == safe_atou32(var.s)
    IN  IF var.r = ENOENT THEN [r |-> 0, line |-> 0, warned |-> FALSE, v |-> 0]
        ELSE IF var.r < 0 THEN [r |-> var.r, line |-> 476, warned |-> FALSE, v |-> 0]
        ELSE IF n.r < 0 THEN [r |-> n.r, line |-> 480, warned |-> FALSE, v |-> 0]
        ELSE IF pcr # n.v THEN [r |-> EINVAL, line |-> 483, warned |-> TRUE, v |-> n.v]
        ELSE [r |-> 0, line |-> 0, warned |-> FALSE, v |-> n.v]

\* static int compare_reported_pcr_nr(pcr, varname, description), var being
\* what efi_get_variable_string gives: the return value, the line of a
\* failing return, whether the warning was logged, and v
compare_reported_pcr_nr(pcr, var) ==
    LET n == safe_atou32(var.s)
    IN  IF var.r = ENOENT THEN [r |-> 0, line |-> 0, warned |-> FALSE, v |-> 0]
        ELSE IF var.r < 0 THEN [r |-> var.r, line |-> 476, warned |-> FALSE, v |-> 0]
        ELSE IF n.r < 0 THEN [r |-> n.r, line |-> 480, warned |-> FALSE, v |-> 0]
        ELSE [r |-> 0, line |-> 0, warned |-> pcr # n.v, v |-> n.v]

\* the platforms of the status runs
Platforms ==
    {[tpm2_support |-> t,
      dirs |-> [b \in BankDirs |-> CASE b = "sha1" -> x [] b = "sha256" -> y [] OTHER -> z],
      pcr |-> <<>>] :
        t \in {"full", "partial"},
        x \in {"exists", "ENOENT", "EACCES"}, y \in {"exists", "ENOENT", "EACCES"},
        z \in {"exists", "ENOENT"}}

InitStatus ==
    /\ tool = "measure"
    /\ verb = "status"
    /\ platform \in Platforms
    /\ pc = "parse_argv"
    /\ ret = 0
    /\ BootctlIdle
    /\ MeasureIdle

\* what status leaves alone
cvars == <<argn, arg_sections, arg_banks, arg_current, later_first, pcr_states,
          sect, bank_i, fd, m_read, mdctx, extlog, fault>>

\* validate_stub, lines 494-503
ValidateStubSupport ==
    /\ tool = "measure" /\ pc = "validate_stub"
    /\ IF platform.tpm2_support # "full"
          THEN /\ ret' = EOPNOTSUPP /\ errline' = 495 /\ pc' = "exit"
               /\ UNCHANGED status
          ELSE \E features \in StubFeatures :
                  IF features.r < 0
                     THEN /\ ret' = features.r /\ errline' = 499 /\ pc' = "exit"
                          /\ status' = [status EXCEPT !.features = features]
                     ELSE /\ status' = [status EXCEPT
                                 !.i = 0,
                                 !.features = features,
                                 !.warnings = IF features.three_pcrs THEN @
                                              ELSE Append(@, [line |-> 502, pcr |-> 0, v |-> 0])]
                          /\ pc' = "compare_reported_pcr_nr"
                          /\ UNCHANGED <<ret, errline>>
    /\ UNCHANGED <<tool, verb, platform, bvars, cvars, stdout>>

\* validate_stub, lines 505-515: one of the three calls
ValidateStubCompare ==
    /\ tool = "measure" /\ pc = "compare_reported_pcr_nr"
    /\ \E var \in EfiVariables(relevant_pcrs[status.i + 1]) :
          LET pcr == relevant_pcrs[status.i + 1]
              res == compare_reported_pcr_nr(pcr, var)
          IN  /\ status' = [status EXCEPT
                     !.i = IF res.r < 0 THEN @ ELSE @ + 1,
                     !.b = 0,
                     !.calls = Append(@, [var |-> var, r |-> res.r]),
                     !.warnings = IF res.warned
                                     THEN Append(@, [line |-> 483, pcr |-> pcr, v |-> res.v])
                                     ELSE @]
              /\ IF res.r < 0
                    THEN ret' = res.r /\ errline' = res.line /\ pc' = "exit"
                    ELSE /\ UNCHANGED <<ret, errline>>
                         /\ pc' = (IF status.i + 1 = Len(relevant_pcrs)
                                      THEN "validate_bank" ELSE pc)
    /\ UNCHANGED <<tool, verb, platform, bvars, cvars, stdout>>

\* validate_stub, lines 517-532: one bank
ValidateStubBank ==
    /\ tool = "measure" /\ pc = "validate_bank" /\ status.b < Len(arg_banks)
    /\ LET dir == platform.dirs[ascii_strlower(arg_banks[status.b + 1])]
       IN  IF dir = "EACCES"
              THEN /\ ret' = EACCES /\ errline' = 529 /\ pc' = "exit"
                   /\ UNCHANGED status
              ELSE /\ status' = [status EXCEPT
                          !.b = @ + 1,
                          !.found = (@ \/ dir = "exists")]
                   /\ UNCHANGED <<ret, errline, pc>>
    /\ UNCHANGED <<tool, verb, platform, bvars, cvars, stdout>>

\* mutant: the verb goes on when no directory was found
ValidateStubReturnAlways ==
    /\ tool = "measure" /\ pc = "validate_bank" /\ status.b = Len(arg_banks)
    /\ pc' = "status_read"
    /\ status' = [status EXCEPT !.i = 0, !.b = 0]
    /\ UNCHANGED <<ret, errline>>
    /\ UNCHANGED <<tool, verb, platform, bvars, cvars, stdout>>

\* validate_stub, lines 534-537, and verb_status, lines 554-556
ValidateStubReturn ==
    /\ tool = "measure" /\ pc = "validate_bank" /\ status.b = Len(arg_banks)
    /\ IF status.found
          THEN /\ pc' = "status_read"
               /\ status' = [status EXCEPT !.i = 0, !.b = 0]
               /\ UNCHANGED <<ret, errline>>
          ELSE /\ ret' = EOPNOTSUPP /\ errline' = 535 /\ pc' = "exit"
               /\ UNCHANGED status
    /\ UNCHANGED <<tool, verb, platform, bvars, cvars, stdout>>

\* memeqzero: every byte is zero
memeqzero(h) == \A k \in 1..Len(h) : h[k] = 0

\* what read_virtual_file may give for a PCR file of a bank: there is no
\* file where there is no directory; else a read error, a value in
\* hexadecimal, or text that is none
StatusReads(bank) ==
    IF platform.dirs[ascii_strlower(bank)] # "exists"
        THEN {[r |-> ENOENT, s |-> <<>>]}
        ELSE {[r |-> EIO, s |-> <<>>],
              [r |-> 0, s |-> hexmem(PatternBytes(EVP_MD_size(bank))) \o <<WS>>],
              [r |-> 0, s |-> <<BADCHAR, BADCHAR>>]}

\* verb_status, lines 558-627 without --json: one PCR of one bank
StatusRead ==
    /\ tool = "measure" /\ pc = "status_read" /\ status.i < Len(relevant_pcrs)
    /\ \E rv \in StatusReads(arg_banks[status.b + 1]) :
          LET h == unhexmem(strstrip(rv.s))
              nr == relevant_pcrs[status.i + 1]
              b == ascii_strlower(arg_banks[status.b + 1])
              last == status.b + 1 = Len(arg_banks)
              next == [status EXCEPT !.b = IF last THEN 0 ELSE @ + 1,
                                     !.i = IF last THEN @ + 1 ELSE @]
          IN  IF rv.r = ENOENT
                 THEN status' = next /\ UNCHANGED <<ret, errline, pc, stdout>>
              ELSE IF rv.r < 0
                 THEN /\ ret' = rv.r /\ errline' = 576 /\ pc' = "exit"
                      /\ UNCHANGED <<status, stdout>>
              ELSE IF h.r < 0
                 THEN /\ ret' = h.r /\ errline' = 580 /\ pc' = "exit"
                      /\ UNCHANGED <<status, stdout>>
              ELSE /\ stdout' = Append(stdout, [pcr |-> nr, bank |-> b,
                                                hd |-> hexmem(h.bytes)])
                   /\ status' = [next EXCEPT
                          !.stderr = IF status.b = 0
                                        THEN Append(@, [pcr |-> nr,
                                                        not_set |-> memeqzero(h.bytes)])
                                        ELSE @]
                   /\ UNCHANGED <<ret, errline, pc>>
    /\ UNCHANGED <<tool, verb, platform, bvars, cvars>>

\* verb_status, line 636
VerbStatusReturn ==
    /\ tool = "measure" /\ pc = "status_read" /\ status.i = Len(relevant_pcrs)
    /\ ret' = 0
    /\ pc' = "exit"
    /\ UNCHANGED <<tool, verb, platform, status, bvars, cvars, stdout, errline>>

StatusNext ==
    \/ ParseBankOption
    \/ ParseEnd
    \/ ValidateStubSupport
    \/ ValidateStubCompare
    \/ ValidateStubBank
    \/ ValidateStubReturn
    \/ StatusRead
    \/ VerbStatusReturn

SpecStatus == InitStatus /\ [][StatusNext]_vars

(***************************************************************************)
(* Properties of measure calculate.  Digests are symbolic and free of      *)
(* collisions: two digests are equal only if algorithm and message are.    *)
(***************************************************************************)
\* a run of calculate that parsed its arguments and has ended
CalculateEnded == tool = "measure" /\ pc = "exit" /\ errline # 150
CalculateOk == CalculateEnded /\ ret = 0 /\ ~arg_current
Outcome == [r |-> ret, line |-> errline, states |-> pcr_states]

\* what a slot holds: nothing when the option is omitted
Content(path) == IF path = NOPATH THEN <<>> ELSE FileContent(path)

\* the reference: H(m) of a bank, and the fold over the slots in fixed order
RefSize(md) ==
    CASE md = "SHA1" -> 20 [] md = "SHA256" -> 32 [] md = "SHA384" -> 48
      [] md = "SHA512" -> 64
H(md, msg) == <<[t |-> "digest", md |-> md, v |-> RefSize(md), pre |-> msg]>>

RECURSIVE RefFold(_, _, _, _)
RefFold(register, md, secs, slot) ==
    IF slot = 6 THEN register
    ELSE IF Content(secs[slot]) = <<>> THEN RefFold(register, md, secs, slot + 1)
    ELSE LET named == H(md, register \o H(md, Bytes(Append(unified_sections[slot], 0))))
         IN  RefFold(H(md, named \o H(md, Bytes(Content(secs[slot])))), md, secs, slot + 1)

RefZero(md) == [k \in 1..RefSize(md) |-> Byte(0)]

\* the extends so far: every content extend directly follows the name extend
\* of the same section and bank, and no extend of a later slot comes first
ExtendsInOrder ==
    /\ \A k \in 1..Len(extlog) :
          extlog[k].what = "content" =>
             /\ k > 1
             /\ extlog[k - 1] = [c |-> extlog[k].c, bank |-> extlog[k].bank, what |-> "name"]
    /\ \A k \in 1..Len(extlog), l \in 1..Len(extlog) : k < l => extlog[k].c <= extlog[l].c

\* C1: a successful calculate run without --current leaves every bank's
\* register equal to the reference fold over the supplied, non-empty slots
\* in the order linux, osrel, cmdline, initrd, splash, dtb; the name extend
\* precedes the content extend of a section and no later slot is extended
\* before an earlier one, whatever the order of the options.
C1_ReferenceFold ==
    /\ tool = "measure" => ExtendsInOrder
    /\ CalculateOk =>
          /\ Len(pcr_states) = Len(arg_banks)
          /\ \A k \in 1..Len(pcr_states) :
                pcr_states[k].value =
                    RefFold(RefZero(arg_banks[k]), arg_banks[k], arg_sections, 0)

C1_Witness ==
    /\ CalculateOk
    /\ later_first
    /\ Len(pcr_states) > 1
    /\ Cardinality({us \in UnifiedSection : Content(arg_sections[us]) # <<>>}) >= 2
    /\ Len(extlog) >= 8

\* the arguments with slot us omitted, and with the files of two slots swapped
Omit(secs, us) == [secs EXCEPT ![us] = NOPATH]
Swap(secs, a, b) == [secs EXCEPT ![a] = secs[b], ![b] = secs[a]]

\* C6 as stated: in every ended run, a slot holding an empty file can be
\* omitted without changing the outcome or any register; with --current the
\* run was rejected for naming a file, so the run without it must be too.
C6_OmissionEquivalence ==
    CalculateEnded =>
       \A us \in UnifiedSection :
          arg_sections[us] = "/empty" =>
             IF arg_current
                THEN parse_argv_current_conflict(Omit(arg_sections, us), arg_current)
                ELSE Outcome = calculate(Omit(arg_sections, us), arg_banks)

\* C6 amended: without --current, a slot other than linux that holds an
\* empty file can be omitted without changing the outcome or any register.
C6_OmissionEquivalenceNotLinux ==
    (CalculateEnded /\ ~arg_current) =>
       \A us \in UnifiedSection :
          (us # UNIFIED_SECTION_LINUX /\ arg_sections[us] = "/empty") =>
             Outcome = calculate(Omit(arg_sections, us), arg_banks)

C6_Witness ==
    /\ CalculateOk
    /\ \E us \in UnifiedSection : us # UNIFIED_SECTION_LINUX /\ arg_sections[us] = "/empty"
    /\ Len(extlog) > 0

C8_SizeInvariant ==
    tool = "measure" =>
       /\ fault = "none"
       /\ \A k \in 1..Len(pcr_states) :
             /\ pcr_states[k].value_size = EVP_MD_size(pcr_states[k].md)
             /\ ByteLen(pcr_states[k].value) = pcr_states[k].value_size

\* nothing of a measurement has happened: no register, no section file
\* opened, no platform value read, nothing extended, nothing printed
NothingMeasured ==
    /\ pcr_states = <<>> /\ platform.pcr = <<>>
    /\ ~fd.open /\ mdctx = <<>> /\ sect = 0 /\ bank_i = 0
    /\ extlog = <<>> /\ stdout = <<>>

\* C15: a bank name no digest implements ends the run with EINVAL at line
\* 150 with nothing measured; arg_banks never holds a name that does not
\* resolve, so every register verb_calculate creates has an implementation.
C15_UnknownBankRejected ==
    tool = "measure" =>
       /\ errline = 150 => (pc = "exit" /\ ret = EINVAL /\ NothingMeasured)
       /\ \A k \in 1..Len(arg_banks) : EVP_get_digestbyname(arg_banks[k]) # ""
       /\ \A k \in 1..Len(pcr_states) :
             /\ pcr_states[k].md # ""
             /\ pcr_states[k].md = EVP_get_digestbyname(arg_banks[k])

\* C15 witness: --linux= and a good bank came first, then the unknown bank
C15_Witness ==
    /\ tool = "measure" /\ pc = "exit" /\ errline = 150
    /\ argn = 3
    /\ arg_sections[UNIFIED_SECTION_LINUX] # NOPATH
    /\ Len(arg_banks) = 1

\* the order of the bank names, and a list that ascends strictly in it
BankOrder == <<"SHA1", "SHA256", "SHA384", "SHA512">>
BankPlace(name) == CHOOSE k \in 1..Len(BankOrder) : BankOrder[k] = name
Ascending(banks) ==
    \A k \in 1..Len(banks), l \in 1..Len(banks) :
        k < l => BankPlace(banks[k]) < BankPlace(banks[l])
Elements(q) == {q[k] : k \in 1..Len(q)}
ParsedOk == tool = "measure" /\ pc # "parse_argv" /\ errline \notin {150, 189}

\* C16: when parsing has succeeded the bank list is not empty and ascends
\* strictly (sorted, no duplicates); it holds the algorithms the bank
\* options named, or SHA1, SHA256, SHA384, SHA512 when there was none;
\* calculate creates one register per entry and prints them in that order.
C16_BankListSortedUnique ==
    /\ [](ParsedOk =>
            /\ arg_banks # <<>> /\ Ascending(arg_banks)
            /\ pcr_states # <<>> =>
                  /\ Len(pcr_states) = Len(arg_banks)
                  /\ \A k \in 1..Len(arg_banks) : pcr_states[k].md = arg_banks[k]
            /\ stdout # <<>> =>
                  /\ Len(stdout) = Len(arg_banks)
                  /\ \A k \in 1..Len(arg_banks) :
                        stdout[k].bank = pcr_states[k].bank)
    /\ [][(pc = "parse_argv" /\ ParsedOk')
             => /\ arg_banks = <<>> => arg_banks' = BankOrder
                /\ arg_banks # <<>> => Elements(arg_banks') = Elements(arg_banks)]_vars

\* C16 witness: --linux= and two bank options that name the same algorithm
\* gave one register and one line
C16_Witness ==
    /\ tool = "measure" /\ pc = "exit" /\ ret = 0 /\ ~arg_current
    /\ argn = 3
    /\ \A us \in UnifiedSection : us # UNIFIED_SECTION_LINUX => arg_sections[us] = NOPATH
    /\ Len(arg_banks) = 1 /\ Len(pcr_states) = 1 /\ Len(stdout) = 1

\* C17: with --current, a run that names a section file is refused with
\* EINVAL with nothing measured; a run that names none opens no section
\* file and extends nothing, and if it succeeds every register is the value
\* decoded from the PCR file of its bank.
C17_UseCurrentVerbatim ==
    (tool = "measure" /\ verb = "calculate" /\ arg_current /\ pc = "exit" /\ errline # 150) =>
       IF \E us \in UnifiedSection : arg_sections[us] # NOPATH
          THEN ret = EINVAL /\ errline = 189 /\ NothingMeasured
          ELSE /\ ~fd.open /\ mdctx = <<>> /\ sect = 0 /\ extlog = <<>>
               /\ ret = 0 =>
                     /\ Len(platform.pcr) = Len(pcr_states)
                     /\ \A k \in 1..Len(pcr_states) :
                           pcr_states[k].value =
                               Bytes(unhexmem(strstrip(platform.pcr[k].s)).bytes)


(***************************************************************************)
(* Properties of measure status.                                           *)
(***************************************************************************)
\* a status run that got past the command line
StatusRun == tool = "measure" /\ verb = "status" /\ errline # 150

\* call k of compare_reported_pcr_nr found no variable / a number that is
\* not the expected one
VariableMissing(k) == status.calls[k].var.r = ENOENT
VariableDiffers(k) ==
    /\ status.calls[k].var.r = 0
    /\ safe_atou32(status.calls[k].var.s).r = 0
    /\ safe_atou32(status.calls[k].var.s).v # relevant_pcrs[k]
WarnedFor(k) == \E w \in 1..Len(status.warnings) :
                   status.warnings[w].line = 483 /\ status.warnings[w].pcr = relevant_pcrs[k]

\* the lines validate_stub returns an error from
ValidateLines == {495, 499, 476, 480, 529, 535}
Requested == {ascii_strlower(arg_banks[k]) : k \in 1..Len(arg_banks)}
\* the lines of stdout are those of every category and every requested bank
\* with a directory, in the order of the two loops
RECURSIVE StatusLines(_, _)
StatusLines(i, b) ==
    IF i > Len(relevant_pcrs) THEN <<>>
    ELSE IF b > Len(arg_banks) THEN StatusLines(i + 1, 1)
    ELSE (IF platform.dirs[ascii_strlower(arg_banks[b])] = "exists"
             THEN <<[pcr |-> relevant_pcrs[i], bank |-> ascii_strlower(arg_banks[b])]>>
             ELSE <<>>) \o StatusLines(i, b + 1)
Printed == [k \in 1..Len(stdout) |-> [pcr |-> stdout[k].pcr, bank |-> stdout[k].bank]]

\* C18: a call of compare_reported_pcr_nr that finds a number other than
\* the expected one, or no variable, returns 0, having logged the warning
\* in the first case only; validate_stub goes on to the remaining
\* categories and fails for no such call, and a status run that returns 0
\* has printed the value of every category for every bank with a directory.
C18_MismatchOnlyWarns ==
    StatusRun =>
       /\ \A k \in 1..Len(status.calls) :
             (VariableMissing(k) \/ VariableDiffers(k)) =>
                /\ status.calls[k].r = 0
                /\ WarnedFor(k) <=> VariableDiffers(k)
                /\ (k < Len(relevant_pcrs) /\ pc # "compare_reported_pcr_nr")
                      => Len(status.calls) > k
       /\ (pc = "exit" /\ errline \in {476, 480}) =>
             LET last == status.calls[Len(status.calls)]
             IN  last.r < 0 /\ ~VariableMissing(Len(status.calls))
                 /\ ~VariableDiffers(Len(status.calls))
       /\ (pc = "exit" /\ ret = 0 /\ Len(status.calls) = Len(relevant_pcrs)) =>
              Printed = StatusLines(1, 1)

\* the witness of C18: a status run that returned 0 and printed values after
\* the first variable held another number and the second did not exist
C18_Witness ==
    /\ StatusRun /\ pc = "exit" /\ ret = 0
    /\ Len(status.calls) = Len(relevant_pcrs)
    /\ VariableDiffers(1) /\ VariableMissing(2)
    /\ stdout # <<>>

ParsedNumber(k) == status.calls[k].var.r = 0 /\ safe_atou32(status.calls[k].var.s).r = 0
NothingPrinted == stdout = <<>> /\ status.stderr = <<>>
\* validate_stub has returned 0
Validated == pc = "status_read" \/ (pc = "exit" /\ errline \notin ValidateLines)

\* C19 as stated: a status run ends with EOPNOTSUPP and nothing printed
\* when TPM2 support is not full or no requested bank has a directory, and
\* validate_stub returns 0 when support is full, no variable failed to be
\* read and a requested bank has a directory.
C19_UnsupportedPlatform ==
    (StatusRun /\ pc = "exit") =>
       /\ (platform.tpm2_support # "full"
             \/ \A b \in Requested : platform.dirs[b] # "exists")
             => (ret = EOPNOTSUPP /\ NothingPrinted)
       /\ (/\ platform.tpm2_support = "full"
           /\ status.features.r # EIO
           /\ \A k \in 1..Len(status.calls) : status.calls[k].var.r # EIO
           /\ \E b \in Requested : platform.dirs[b] = "exists")
             => Validated

\* C19, amended: without full TPM2 support a status run ends with
\* EOPNOTSUPP before anything is read or printed; with full support, the
\* stub features read and each of the three variables missing or holding a
\* number, it ends with EOPNOTSUPP and nothing printed when every requested
\* bank's directory is missing; and validate_stub returns an error only for
\* missing full support, a failure to read the stub features, a variable
\* that cannot be read or holds no number, a directory check failing
\* otherwise than with ENOENT, or no requested bank having a directory.
C19_UnsupportedPlatformAmended ==
    (StatusRun /\ pc = "exit") =>
       /\ platform.tpm2_support # "full"
             => /\ ret = EOPNOTSUPP /\ errline = 495 /\ NothingPrinted
                /\ status.features = NoFeatures /\ status.calls = <<>>
       /\ (/\ platform.tpm2_support = "full"
           /\ status.features.r = 0
           /\ Len(status.calls) = Len(relevant_pcrs)
           /\ \A k \in 1..Len(status.calls) : VariableMissing(k) \/ ParsedNumber(k)
           /\ \A b \in Requested : platform.dirs[b] = "ENOENT")
             => (ret = EOPNOTSUPP /\ errline = 535 /\ NothingPrinted)
       /\ (/\ platform.tpm2_support = "full"
           /\ status.features.r = 0
           /\ \A k \in 1..Len(status.calls) : VariableMissing(k) \/ ParsedNumber(k)
           /\ \A b \in Requested : platform.dirs[b] # "EACCES"
           /\ \E b \in Requested : platform.dirs[b] = "exists")
             => Validated

\* the witness of C19: a run that ended with EOPNOTSUPP at line 535, the
\* support being full and all three variables having been compared
C19_Witness ==
    /\ StatusRun /\ pc = "exit" /\ ret = EOPNOTSUPP /\ errline = 535
    /\ platform.tpm2_support = "full"
    /\ Len(status.calls) = Len(relevant_pcrs)
    /\ Len(arg_banks) > 1


(***************************************************************************)
(* Properties of the banks of one calculate run.                           *)
(***************************************************************************)
\* the run over the same section files with b as its only bank
Alone(b) == calculate(arg_sections, <<b>>)

\* C21: in a successful calculate run without --current, the register of
\* each bank is the one the run over the same section files with that bank
\* alone gives, so that any two runs over the same files agree on a bank
\* both have, whatever their other banks; and a step that extends the
\* register of one bank leaves the register of every other bank as it was.
C21_BanksNeverInteract ==
    /\ [](CalculateOk =>
            \A k \in 1..Len(pcr_states) :
               /\ Alone(arg_banks[k]).r = 0
               /\ Alone(arg_banks[k]).states[1].value = pcr_states[k].value)
    /\ [][(tool = "measure" /\ pc \in {"extend_name", "extend_content"}) =>
             /\ Len(pcr_states') = Len(pcr_states)
             /\ \A k \in 1..Len(pcr_states) :
                   k # bank_i + 1 => pcr_states'[k] = pcr_states[k]]_vars

\* the witness of C21: a successful run of several banks in which the last
\* bank has been extended with the name and the content of a section
C21_Witness ==
    /\ CalculateOk
    /\ Len(pcr_states) >= 2
    /\ \E k \in 1..Len(extlog) :
          extlog[k].bank = Len(pcr_states) - 1 /\ extlog[k].what = "content"
    /\ pcr_states[1].value # RefZero(arg_banks[1])


(***************************************************************************)
(* Properties of the output of measure status.                             *)
(***************************************************************************)
\* the header of a PCR is among the lines written to stderr
HeaderWritten(nr) == \E h \in 1..Len(status.stderr) : status.stderr[h].pcr = nr

\* C22: in a status run every PCR that has a value line on stdout has its
\* header line on stderr; the header is written by the step that prints
\* the first value line of the PCR, ahead of it.
C22_HeaderBeforeValues ==
    StatusRun => \A k \in 1..Len(stdout) : HeaderWritten(stdout[k].pcr)

=============================================================================
